---- MODULE Spec2Model ----
(***************************************************************************)
(* State-machine model of the wearable firmware's data pipeline:           *)
(*   - DataBuffer        (src/data_buffer.cpp)                             *)
(*   - CalorieManager    (src/calorie_manager.cpp)                         *)
(*   - MPU6050Manager    (src/mpu6050_manager.cpp)                         *)
(*   - Max30102Manager   (src/max30102_manager.cpp) and its older variant  *)
(*     SensorManager     (src/sensor_manager.cpp)                          *)
(*                                                                         *)
(* Numeric conventions.                                                    *)
(*   * millis() is a 32-bit unsigned counter.  TLC's integers are 32-bit   *)
(*     signed, so a uint32_t time is held as two 16-bit halves             *)
(*     [hi, lo] (value hi * 2^16 + lo) and subtracted modulo 2^32.         *)
(*   * float heart rate / SpO2 inputs of addSample are held in tenths      *)
(*     (759 stands for 75.9); the (uint8_t) cast truncates them.           *)
(*   * float calories are held in fixed point, in units of 1/7000 kcal,    *)
(*     which makes the step term steps * 0.04 * (weight / 70) the exact    *)
(*     integer steps * weight * 4 for whole weights; the heart-rate term   *)
(*     is truncated to that unit.  Heart rates, weights and ages are whole *)
(*     numbers.                                                            *)
(*   * float accelerations are held in thousandths of g; sqrtf() and the   *)
(*     products of the high-pass filter are rounded down to that unit.     *)
(*   * the float SpO2 estimate is held in hundredths of a percent; the     *)
(*     float heart rate currentHR only ever holds whole numbers.           *)
(*   * long lastBeat is held as its 32-bit pattern [hi, lo]; the long      *)
(*     delta = millis() - lastBeat is negative when its hi half is 2^15 or *)
(*     more.                                                               *)
(***************************************************************************)
EXTENDS Integers, Sequences, FiniteSets, TLC

\* ------------------------------------------------------------------------
\* Program constants
\* ------------------------------------------------------------------------
HR_BUFFER_SIZE == 10
DATA_SEND_INTERVAL_MS == 60000
MIN_SAMPLES_TO_SEND == 10

\* ------------------------------------------------------------------------
\* Bounds of the model
\* ------------------------------------------------------------------------
\* addSample() calls explored in one run (more than one full buffer)
MaxAdds == 12
\* clear() calls explored in one run
MaxClears == 1
\* clock advances explored in one run of the buffer
MaxBufTicks == 1
\* update() calls and clock advances explored in one run of the calorie manager
MaxCalUpdates == 4
MaxCalTicks == 4
\* update() calls and clock advances explored in one run of the step detector
MaxStepCalls == 4
MaxStepTicks == 3
\* readSensorData() calls and clock advances explored in one run of the
\* vital-sign estimator
MaxVitalReads == 5
MaxVitalTicks == 5
\* direct notifyHealthData...() calls, controller ticks and clock advances
\* explored in one run of the link
MaxBleCalls == 2
MaxBatchTicks == 2
MaxLinkTicks == 1
\* getCompressedData() calls, and addSample() calls before them, explored in
\* one run of the serialization
MaxSerCalls == 2
MaxSerAdds == 3
\* addSample() calls explored in one run on arguments of any size
MaxClampAdds == 2
\* calls explored in the specification of the buffer's queries
MaxQueryAdds == 11
MaxQueryCalls == 2
\* characteristic writes explored
MaxWrites == 3
\* maintain() calls and clock advances explored for the MQTT client
MaxMaintainCalls == 4
MaxMqttTicks == 5

\* ------------------------------------------------------------------------
\* uint32_t arithmetic on [hi, lo] halves
\* ------------------------------------------------------------------------
Half == 65536

ToU32(n) == [hi |-> (n \div Half) % Half, lo |-> n % Half]

U32Add(a, b) ==
    LET lo == a.lo + b.lo
        carry == lo \div Half
    IN  [hi |-> (a.hi + b.hi + carry) % Half, lo |-> lo % Half]

\* a - b modulo 2^32, as the C expression (a - b) on two unsigned longs
U32Sub(a, b) ==
    LET lo == a.lo - b.lo
        borrow == IF lo < 0 THEN 1 ELSE 0
    IN  [hi |-> (a.hi - b.hi - borrow) % Half, lo |-> lo % Half]

\* a >= n and a > n for a uint32_t a and a constant 0 <= n < 2^16
U32Ge(a, n) == a.hi > 0 \/ a.lo >= n
U32Gt(a, n) == a.hi > 0 \/ a.lo > n

U32Zero == [hi |-> 0, lo |-> 0]

VARIABLES
    \* environment: the value millis() returns, and the clock advances made
    millis, ticks,
    \* DataBuffer members
    buffer_, count_, head_, lastSendMs_, firstSampleMs_,
    \* DataBuffer history: the samples stored since the last clear(), in
    \* insertion order, the numbers of addSample() and clear() calls made,
    \* and the arguments and the return value of the last addSample() call
    added, adds, clears, addCall,
    \* CalorieManager members
    lastStepCount_, totalCalories_, lastUpdateMs_,
    \* CalorieManager history: the arguments and the locals (now, stepCal,
    \* hrCal, whether the heart-rate term was added) of the last update()
    \* call, the number of update() calls made, whether update() has run
    \* since construction or reset(), the time of the last heart-rate charge,
    \* the number of heart-rate charges made, the time of the last heart-rate
    \* evaluation (the 60 s test passed, whether or not the heart rate was in
    \* range), whether one was made since construction or reset(), and the
    \* number of steps step energy has been charged for since construction
    \* (kept where the charges are followed, 0 elsewhere)
    calCall, calUpdates, calFresh, hrChargeMs, hrCharges,
    hrEvalMs, hrEvaluatedSinceReset, chargedSteps,
    \* MPU6050Manager members (wire_ is held as "a bus is attached")
    wire_, ax_, ay_, az_, mag_g_, prevRawMag_, hpVal_, stepCount_, lastStepMs_,
    \* the function-local statics of MPU6050Manager::update()
    prevHp, rising,
    \* MPU6050Manager history: the number of update() calls made, the number
    \* of steps counted since start-up (resetStepCount() does not
    \* lower it), and the real time in ms since the last counted step (since
    \* start-up before the first one), held up to SinceCap, and whether the
    \* bus read of the last update() call that made one failed
    stepCalls, stepsEver, sinceStep, readFailed,
    \* which estimator class the build uses: "Max30102Manager" or the older
    \* "SensorManager"; both have the members below
    estimator,
    \* members of the estimator (currentHR_ is the member currentHR: the
    \* name without the underscore is the argument of CalorieManager::update)
    rates, rateSpot, lastBeat, currentHR_, currentSPO2, sensorStatus,
    \* estimator history: the number of readSensorData() calls made; the
    \* number of beats detected and of beats accepted since start-up; the last
    \* (up to four) accepted BPM values, oldest first; and the number of
    \* samples read by the latest calls that found every sample below the
    \* threshold (0 when the last call that read a sample found one above it)
    reads, beatsEver, acceptedEver, lastAccepted, lowRun, rejectedWhileValid,
    \* BLEServiceManager members: whether a client is connected, the time of
    \* the last activity, and the health-data characteristic (whether begin()
    \* has created it, and the value it holds)
    clientConnected_, lastActivityMs_, pHealthDataBatchChar_,
    \* BLEServiceManager history: the number of notify() calls made on the
    \* health-data characteristic, the number of notifyHealthData...() calls
    \* made, the name and the return value of the last one, and the alert
    \* score the last realtime notification gave to buildHealthDataJSON()
    notifications, bleCalls, bleCall, alertArg,
    \* BLEServiceManager members: the user profile (height in centimetres,
    \* bmr in quarters of a kcal/day) and the step-count-enabled flag
    userProfile_, stepCountEnabled_,
    \* history of the characteristic writes: the number of onWrite() calls
    \* made, and the characteristic and the value of the last one
    writes, writeCall,
    \* delivery controller history: the number of batch ticks made and the
    \* number of them whose delivery failed
    batchTicks, batchFailures,
    \* the caller's buffer getCompressedData() wrote to, as a sequence of
    \* characters, and the value it returned
    output, returned,
    \* serialization history: the number of getCompressedData() calls made
    \* and the maxLen of the last one
    serCalls, serMaxLen,
    \* query history: the number of shouldSend(), isFull(), getCount() and
    \* getLatestSample() calls made, and the name and the return value of the
    \* last one
    queryCalls, queryCall,
    \* MQTTClientManager: the state of mqttClient (connected, never
    \* connected, last connect refused, connection lost), and the member
    \* lastReconnectAttempt
    mqttState, lastReconnectAttempt,
    \* MQTTClientManager history: the number of maintain() calls made, the
    \* number of connection attempts maintain() has started, and the real
    \* time in ms since the last of them, held up to AttemptCap
    maintainCalls, reconnectAttempts, sinceAttempt

vitalVars == <<estimator, rates, rateSpot, lastBeat, currentHR_, currentSPO2,
               sensorStatus, reads, beatsEver, acceptedEver,
               lastAccepted, lowRun, rejectedWhileValid>>
mpuVars == <<wire_, ax_, ay_, az_, mag_g_, prevRawMag_, hpVal_, stepCount_,
             lastStepMs_, prevHp, rising, stepCalls, stepsEver, sinceStep,
             readFailed>>
calVars == <<lastStepCount_, totalCalories_, lastUpdateMs_,
             calCall, calUpdates, calFresh, hrChargeMs, hrCharges,
             hrEvalMs, hrEvaluatedSinceReset, chargedSteps>>
bufVars == <<buffer_, count_, head_, lastSendMs_, firstSampleMs_, added, adds,
             clears, addCall>>
envVars == <<millis, ticks>>
profileVars == <<userProfile_, stepCountEnabled_, writes, writeCall>>
bleVars == <<clientConnected_, lastActivityMs_, pHealthDataBatchChar_,
             notifications, bleCalls, bleCall, alertArg, batchTicks,
             batchFailures, profileVars>>
ioVars == <<output, returned, serCalls, serMaxLen, queryCalls, queryCall>>
mqttVars == <<mqttState, lastReconnectAttempt, maintainCalls,
              reconnectAttempts, sinceAttempt>>
vars == <<envVars, bufVars, calVars, mpuVars, vitalVars, bleVars, ioVars,
          mqttVars>>

\* ------------------------------------------------------------------------
\* Environment
\* ------------------------------------------------------------------------
\* millis() moves forward by d milliseconds (a uint32_t that wraps)
Advance(d) ==
    /\ millis' = U32Add(millis, d)
    /\ ticks' = ticks + 1

\* ------------------------------------------------------------------------
\* DataBuffer
\* ------------------------------------------------------------------------
Slots == 0 .. (HR_BUFFER_SIZE - 1)

\* a HealthSample zeroed by the constructor's memset
ZeroSample == [hr |-> 0, spo2 |-> 0, steps |-> 0, timestamp |-> 0]

\* a constrain() without the lower bound
ConstrainUpperOnly(amt, low, high) ==
    IF amt > high * 10 THEN high * 10 ELSE amt

\* Arduino's constrain(amt, low, high) on a value in tenths
Constrain(amt, low, high) ==
    IF amt < low * 10 THEN low * 10
    ELSE IF amt > high * 10 THEN high * 10 ELSE amt

\* (uint8_t) of a non-negative float in tenths: truncation toward zero
ToUint8(x) == (x \div 10) % 256

\* the inputs of addSample(): hr and spo2 in tenths, the step count, and the
\* wall-clock second time(&now) returns for the call
SampleInputs ==
    { [hr |-> 759,  spo2 |-> 985,  steps |-> 100, now |-> 1700000001],
      [hr |-> 3000, spo2 |-> -30,  steps |-> 105, now |-> 1700000002] }

\* no addSample() call made yet
NoAdd == [hr |-> 0, spo2 |-> 0, steps |-> 0, now |-> 0, ret |-> FALSE]

DataBufferInit ==
    /\ buffer_ = [i \in Slots |-> ZeroSample]
    /\ count_ = 0
    /\ head_ = 0
    /\ lastSendMs_ = U32Zero
    /\ firstSampleMs_ = U32Zero
    /\ added = <<>>
    /\ adds = 0
    /\ clears = 0
    /\ addCall = NoAdd

isFull == count_ >= HR_BUFFER_SIZE

\* the HealthSample addSample() builds from its arguments
MakeSample(in) ==
    [hr        |-> ToUint8(Constrain(in.hr, 0, 255)),
     spo2      |-> ToUint8(Constrain(in.spo2, 0, 100)),
     steps     |-> in.steps,
     timestamp |-> in.now]

\* a first-sample time stamped by every call
firstSampleMsAfterAlways == millis

\* firstSampleMs_ after addSample(): if (count_ == 0) firstSampleMs_ = millis()
firstSampleMsAfter == IF count_ = 0 THEN millis ELSE firstSampleMs_

\* a write position that never advances
nextHeadStuck(h) == h

\* head_ = (head_ + 1) % HR_BUFFER_SIZE
nextHead(h) == (h + 1) % HR_BUFFER_SIZE

\* the arguments of an addSample() call with the value it returns
AddCall(in, ret) ==
    [hr |-> in.hr, spo2 |-> in.spo2, steps |-> in.steps, now |-> in.now,
     ret |-> ret]

\* addSample() with the count_ < HR_BUFFER_SIZE test left out
addSampleUncapped(in) ==
    /\ adds < MaxAdds
    /\ firstSampleMs_' = firstSampleMsAfter
    /\ buffer_' = [buffer_ EXCEPT ![head_] = MakeSample(in)]
    /\ head_' = nextHead(head_)
    /\ count_' = count_ + 1
    /\ added' = Append(added, MakeSample(in))
    /\ adds' = adds + 1
    /\ addCall' = AddCall(in, count_' >= HR_BUFFER_SIZE)
    /\ UNCHANGED <<lastSendMs_, clears, envVars, calVars, mpuVars, vitalVars, bleVars, ioVars, mqttVars>>

addSample(in) ==
    /\ adds < MaxAdds
    /\ firstSampleMs_' = firstSampleMsAfter
    /\ buffer_' = [buffer_ EXCEPT ![head_] = MakeSample(in)]
    /\ head_' = nextHead(head_)
    /\ count_' = IF count_ < HR_BUFFER_SIZE THEN count_ + 1 ELSE count_
    /\ added' = Append(added, MakeSample(in))
    /\ adds' = adds + 1
    /\ addCall' = AddCall(in, count_' >= HR_BUFFER_SIZE)
    /\ UNCHANGED <<lastSendMs_, clears, envVars, calVars, mpuVars, vitalVars, bleVars, ioVars, mqttVars>>

\* shouldSend() with the MIN_SAMPLES_TO_SEND test left out
shouldSendWithoutMinimum ==
    IF isFull THEN TRUE
    ELSE IF U32Ge(U32Sub(millis, firstSampleMs_), DATA_SEND_INTERVAL_MS) THEN TRUE
    ELSE FALSE

shouldSend ==
    IF count_ < MIN_SAMPLES_TO_SEND THEN FALSE
    ELSE IF isFull THEN TRUE
    ELSE IF U32Ge(U32Sub(millis, firstSampleMs_), DATA_SEND_INTERVAL_MS) THEN TRUE
    ELSE FALSE

getCount == count_

\* getCompressedData() walking the buffer from slot 0 whatever the count
getCompressedDataFromSlotZero ==
    [i \in 1 .. count_ |-> buffer_[(i - 1) % HR_BUFFER_SIZE]]

\* the JsonArray getCompressedData() builds: one object per buffered sample
getCompressedData ==
    LET startIdx == IF count_ >= HR_BUFFER_SIZE THEN head_ ELSE 0
    IN  [i \in 1 .. count_ |-> buffer_[(startIdx + (i - 1)) % HR_BUFFER_SIZE]]

\* a clear() that leaves the write position where it is
DataBuffer_clearKeepingHead ==
    /\ clears < MaxClears
    /\ count_' = 0
    /\ firstSampleMs_' = U32Zero
    /\ lastSendMs_' = millis
    /\ added' = <<>>
    /\ clears' = clears + 1
    /\ UNCHANGED <<buffer_, head_, adds, addCall>>

\* what clear() does to the members of the buffer
DataBuffer_clear ==
    /\ clears < MaxClears
    /\ count_' = 0
    /\ head_' = 0
    /\ firstSampleMs_' = U32Zero
    /\ lastSendMs_' = millis
    /\ added' = <<>>
    /\ clears' = clears + 1
    /\ UNCHANGED <<buffer_, adds, addCall>>

clear ==
    /\ DataBuffer_clear
    /\ UNCHANGED <<envVars, calVars, mpuVars, vitalVars, bleVars, ioVars, mqttVars>>

\* getLatestSample() without the test for an empty buffer
getLatestSampleOfAnyCount ==
    LET lastIdx == IF head_ = 0 THEN HR_BUFFER_SIZE - 1 ELSE head_ - 1
    IN  buffer_[lastIdx]

\* getLatestSample(): HealthSample empty = {0, 0, 0} leaves the timestamp
\* zero as well
getLatestSample ==
    LET lastIdx == IF head_ = 0 THEN HR_BUFFER_SIZE - 1 ELSE head_ - 1
    IN  IF count_ = 0 THEN ZeroSample ELSE buffer_[lastIdx]

\* a resetSendTimer() that restarts the first-sample time as well
resetSendTimerAndFirstSample ==
    /\ lastSendMs_' = millis
    /\ firstSampleMs_' = millis
    /\ UNCHANGED <<buffer_, count_, head_, added, adds, clears, addCall>>
    /\ UNCHANGED <<envVars, calVars, mpuVars, vitalVars, bleVars, ioVars, mqttVars>>

\* resetSendTimer(): lastSendMs_ = millis()
resetSendTimer ==
    /\ lastSendMs_' = millis
    /\ UNCHANGED <<buffer_, count_, head_, firstSampleMs_, added, adds, clears,
                   addCall>>
    /\ UNCHANGED <<envVars, calVars, mpuVars, vitalVars, bleVars, ioVars, mqttVars>>

\* a call of one of the const member functions, which hands ret back
Query(op, ret) ==
    /\ queryCalls < MaxQueryCalls
    /\ queryCalls' = queryCalls + 1
    /\ queryCall' = [op |-> op, ret |-> ret]
    /\ UNCHANGED <<output, returned, serCalls, serMaxLen>>
    /\ UNCHANGED <<envVars, bufVars, calVars, mpuVars, vitalVars, bleVars,
                   mqttVars>>

DataBuffer_shouldSend == Query("shouldSend", shouldSend)
DataBuffer_isFull == Query("isFull", isFull)
DataBuffer_getCount == Query("getCount", getCount)
DataBuffer_getLatestSample == Query("getLatestSample", getLatestSample)

\* the one sample the specification of the queries stores
QuerySamples == { [hr |-> 759, spo2 |-> 985, steps |-> 100, now |-> 1700000001] }

\* arguments of addSample() on both sides of the two ranges and on their
\* ends: hr and spo2 in tenths, small and large step counts
ClampInputs ==
    [hr    : { -5, 0, 759, 2550, 2559, 3000 },
     spo2  : { -30, 0, 985, 1000, 1009, 2000 },
     steps : { 0, 105, 2000000000 },
     now   : { 1700000001 }]

\* ------------------------------------------------------------------------
\* CalorieManager
\* ------------------------------------------------------------------------
\* the value of a uint32_t below 2^31
U32ToInt(a) == a.hi * Half + a.lo

\* the UserProfile values the profile characteristics can hold (weight is
\* written from a uint16_t, age and gender from a uint8_t)
Profiles ==
    { [gender |-> 1, weight |-> 70, age |-> 30],
      [gender |-> 0, weight |-> 65, age |-> 21] }

\* a UserProfile as the type allows it: float weight, so also a negative one
AnyProfiles == Profiles \cup { [gender |-> 1, weight |-> -70, age |-> 30] }

\* totalSteps and currentHR arguments of update()
StepInputs == { 1000, 1100 }
HRInputs == { 50, 100, 200 }

NoCall ==
    [totalSteps |-> 0, currentHR |-> 0, weight |-> 0, now |-> U32Zero,
     stepCal |-> 0, hrCal |-> 0, hrCharged |-> FALSE, hrDue |-> FALSE]

CalorieManagerInit ==
    /\ lastStepCount_ = 0
    /\ totalCalories_ = 0
    /\ lastUpdateMs_ = U32Zero
    /\ calCall = NoCall
    /\ calUpdates = 0
    /\ calFresh = TRUE
    /\ hrChargeMs = U32Zero
    /\ hrCharges = 0
    /\ hrEvalMs = U32Zero
    /\ hrEvaluatedSinceReset = FALSE
    /\ chargedSteps = 0

\* estimateStepCalories() with the weight normalisation left out
estimateStepCaloriesUnscaled(steps, weightKg) == steps * 70 * 4

\* steps * (0.04 * (weightKg / 70.0)) kcal, in units of 1/7000 kcal
estimateStepCalories(steps, weightKg) == steps * weightKg * 4

\* ((age*0.2017) - (weightKg*0.09036) + (avgHR*0.6309) - C) * durationMin
\* / 4.184 kcal, clamped at 0, in units of 1/7000 kcal.  The bracket k is
\* held in units of 1e-5 and the duration in milliseconds, so the value is
\* k * durationMs * 7000 / (1e5 * 60000 * 4.184) = k * durationMs * 7 / 25104000,
\* computed on k/100 and durationMs/100 to stay inside 32 bits.
estimateHRCalories(avgHR, durationMs, weightKg, age, gender) ==
    LET C == IF gender = 1 THEN 5509690 ELSE 2040220
        k == (age * 20170) - (weightKg * 9036) + (avgHR * 63090) - C
        cal == ((k \div 100) * (durationMs \div 100) * 7) \div 2510
    IN  IF cal < 0 THEN 0 ELSE cal

\* the test of update() part 2 with the 60000 ms condition left out
hrEvaluationDueEveryCall(now) == U32Gt(lastUpdateMs_, 0)

\* lastUpdateMs_ > 0 && (now - lastUpdateMs_) >= 60000
hrEvaluationDue(now) ==
    /\ U32Gt(lastUpdateMs_, 0)
    /\ U32Ge(U32Sub(now, lastUpdateMs_), 60000)

\* a test for new steps that takes any change of the count
hasNewStepsOnAnyChange(totalSteps) == totalSteps # lastStepCount_

\* totalSteps > lastStepCount_
hasNewSteps(totalSteps) == totalSteps > lastStepCount_

\* the validity test of the heart rate with both ends of the range let in
hrValidInclusive(currentHR) == currentHR >= 50 /\ currentHR <= 200

\* currentHR > 50 && currentHR < 200
hrValid(currentHR) == currentHR > 50 /\ currentHR < 200

update(totalSteps, currentHR, profile) ==
    LET now == millis
        newSteps == totalSteps - lastStepCount_
        stepCal == IF hasNewSteps(totalSteps)
                   THEN estimateStepCalories(newSteps, profile.weight)
                   ELSE 0
        charged == hrEvaluationDue(now) /\ hrValid(currentHR)
        hrCal == IF charged
                 THEN estimateHRCalories(currentHR,
                                         U32ToInt(U32Sub(now, lastUpdateMs_)),
                                         profile.weight, profile.age,
                                         profile.gender)
                 ELSE 0
    IN  /\ calUpdates < MaxCalUpdates
        /\ totalCalories_' = totalCalories_ + stepCal + hrCal
        /\ lastStepCount_' = IF hasNewSteps(totalSteps)
                             THEN totalSteps ELSE lastStepCount_
        /\ lastUpdateMs_' = now
        /\ calCall' = [totalSteps |-> totalSteps, currentHR |-> currentHR,
                       weight |-> profile.weight, now |-> now,
                       stepCal |-> stepCal, hrCal |-> hrCal,
                       hrCharged |-> charged,
                       hrDue |-> hrEvaluationDue(now)]
        /\ calUpdates' = calUpdates + 1
        /\ calFresh' = FALSE
        /\ hrChargeMs' = IF charged THEN now ELSE hrChargeMs
        /\ hrCharges' = IF charged THEN hrCharges + 1 ELSE hrCharges
        /\ hrEvalMs' = IF hrEvaluationDue(now) THEN now ELSE hrEvalMs
        /\ hrEvaluatedSinceReset' = (hrEvaluatedSinceReset \/ hrEvaluationDue(now))
        /\ UNCHANGED <<envVars, bufVars, mpuVars, vitalVars, bleVars, ioVars, mqttVars>>

getTotalCalories == totalCalories_

\* a reset() that leaves the last-seen step count as it is
resetKeepingSteps ==
    /\ totalCalories_' = 0
    /\ lastStepCount_' = lastStepCount_
    /\ lastUpdateMs_' = U32Zero
    /\ calFresh' = TRUE
    /\ hrEvaluatedSinceReset' = FALSE
    /\ UNCHANGED <<calCall, calUpdates, hrChargeMs, hrCharges, hrEvalMs,
                   chargedSteps>>
    /\ UNCHANGED <<envVars, bufVars, mpuVars, vitalVars, bleVars, ioVars, mqttVars>>

reset ==
    /\ totalCalories_' = 0
    /\ lastStepCount_' = 0
    /\ lastUpdateMs_' = U32Zero
    /\ calFresh' = TRUE
    /\ hrEvaluatedSinceReset' = FALSE
    /\ UNCHANGED <<calCall, calUpdates, hrChargeMs, hrCharges, hrEvalMs,
                   chargedSteps>>
    /\ UNCHANGED <<envVars, bufVars, mpuVars, vitalVars, bleVars, ioVars, mqttVars>>

CalDeltas == { ToU32(30000), ToU32(60000) }

TickCal ==
    /\ ticks < MaxCalTicks
    /\ \E d \in CalDeltas : Advance(d)
    /\ UNCHANGED <<bufVars, calVars, mpuVars, vitalVars, bleVars, ioVars, mqttVars>>

\* update() fed the profiles the write path can produce
UpdateCal ==
    \E totalSteps \in StepInputs, currentHR \in HRInputs, profile \in Profiles :
        update(totalSteps, currentHR, profile) /\ UNCHANGED chargedSteps

\* update() fed any profile the UserProfile type allows
UpdateCalAnyProfile ==
    \E totalSteps \in StepInputs, currentHR \in HRInputs, profile \in AnyProfiles :
        update(totalSteps, currentHR, profile) /\ UNCHANGED chargedSteps

\* update() fed a totalSteps that never falls (the running total of a step
\* counter that is not reset), with the steps it charges for added up
UpdateCalNonDecreasing ==
    \E totalSteps \in StepInputs, currentHR \in HRInputs, profile \in Profiles :
        /\ totalSteps >= calCall.totalSteps
        /\ update(totalSteps, currentHR, profile)
        /\ chargedSteps' = IF hasNewSteps(totalSteps)
                           THEN chargedSteps + (totalSteps - lastStepCount_)
                           ELSE chargedSteps

\* ------------------------------------------------------------------------
\* MPU6050Manager
\* ------------------------------------------------------------------------
\* alphaHP_ = 0.97 in hundredths, minStepIntervalMs_ in ms, stepThreshold_ =
\* 0.55 g in thousandths of g, and the accelerometer scale in LSB per g
alphaHP_ == 97
minStepIntervalMs_ == 600
stepThreshold_ == 550
LsbPerG == 16384

\* the real time since the last step is followed up to this many ms
SinceCap == 1300

RECURSIVE SqrtBetween(_, _, _)
SqrtBetween(n, lo, hi) ==
    IF lo >= hi THEN lo
    ELSE LET mid == (lo + hi + 1) \div 2
         IN  IF mid * mid <= n THEN SqrtBetween(n, mid, hi)
             ELSE SqrtBetween(n, lo, mid - 1)

\* sqrtf() of a sum of three squared int16_t readings, rounded down
Sqrtf(n) == SqrtBetween(n, 0, 46340)

\* the axis readings a bus read can deliver: at rest (1 g), a footfall
\* (2 g) and a weak movement (about 1.5 g)
AccelInputs == { <<0, 0, 16384>>, <<0, 0, 32767>>, <<12000, 9000, 20000>> }

\* the values ax_, ay_, az_ can hold: zero from the constructor, or a reading
AxisValues == AccelInputs \cup { <<0, 0, 0>> }

\* sqrtf(ax^2 + ay^2 + az^2) / 16384.0f in thousandths of g, tabulated over
\* the axis values
MagnitudeG ==
    [a \in AxisValues |->
        (Sqrtf(a[1] * a[1] + a[2] * a[2] + a[3] * a[3]) * 1000) \div LsbPerG]

MPU6050ManagerInit ==
    /\ wire_ = FALSE
    /\ ax_ = 0
    /\ ay_ = 0
    /\ az_ = 0
    /\ mag_g_ = 0
    /\ prevRawMag_ = 0
    /\ hpVal_ = 0
    /\ stepCount_ = 0
    /\ lastStepMs_ = U32Zero
    /\ prevHp = 0
    /\ rising = FALSE
    /\ stepCalls = 0
    /\ stepsEver = 0
    /\ sinceStep = 0
    /\ readFailed = FALSE

\* a readAccel() that zeroes the axis values when the bus read fails
readAccelZeroOnFailure(readOk, a) ==
    IF readOk THEN a ELSE <<0, 0, 0>>

\* readAccel(): the axis values after the call, the old ones when the bus
\* read fails
readAccel(readOk, a) ==
    IF readOk THEN a ELSE <<ax_, ay_, az_>>

\* highPass(x): alphaHP_ * (hpVal_ + x - prevRawMag_)
highPass(x) == (alphaHP_ * (hpVal_ + x - prevRawMag_)) \div 100

\* begin(), called once at start-up: regsOk says whether the four register
\* writes succeeded
begin(regsOk, readOk, a) ==
    LET axes == readAccel(readOk, a)
    IN  /\ ~wire_
        /\ wire_' = TRUE
        /\ IF regsOk
           THEN /\ ax_' = axes[1]
                /\ ay_' = axes[2]
                /\ az_' = axes[3]
                /\ prevRawMag_' = MagnitudeG[axes]
                /\ hpVal_' = 0
           ELSE UNCHANGED <<ax_, ay_, az_, prevRawMag_, hpVal_>>
        /\ UNCHANGED <<mag_g_, stepCount_, lastStepMs_, prevHp, rising,
                       stepCalls, stepsEver, sinceStep,
                   readFailed>>
        /\ UNCHANGED <<envVars, bufVars, calVars, vitalVars, bleVars, ioVars, mqttVars>>

\* a refractory test that lets every peak through
refractoryOverAlways(now) == TRUE

\* the refractory test of update(): (now - lastStepMs_) > minStepIntervalMs_
refractoryOver(now) == U32Gt(U32Sub(now, lastStepMs_), minStepIntervalMs_)

\* a counter that gains two per counted step
stepCountAfterTwo(counted) == IF counted THEN stepCount_ + 2 ELSE stepCount_

\* stepCount_ after the peak test of update(): stepCount_++ when the peak is
\* counted
stepCountAfter(counted) == IF counted THEN stepCount_ + 1 ELSE stepCount_

\* a rising flag that is left set when a peak has been handled
risingAfterKept(hp) == rising \/ (hp > prevHp /\ hp > 0)

\* the static flag rising after update(): set on a rising edge, cleared once
\* the peak test has run
risingAfter(hp) ==
    LET rising1 == rising \/ (hp > prevHp /\ hp > 0)
    IN  IF rising1 /\ hp < prevHp THEN FALSE ELSE rising1

\* MPU6050Manager::update()
updateSteps(readOk, a) ==
    LET axes == readAccel(readOk, a)
        mag == MagnitudeG[axes]
        hp == highPass(mag)
        now == millis
        rising1 == rising \/ (hp > prevHp /\ hp > 0)
        peak == rising1 /\ hp < prevHp
        counted == peak /\ prevHp > stepThreshold_ /\ refractoryOver(now)
    IN  /\ stepCalls < MaxStepCalls
        /\ stepCalls' = stepCalls + 1
        /\ IF ~wire_
           THEN UNCHANGED <<wire_, ax_, ay_, az_, mag_g_, prevRawMag_, hpVal_,
                            stepCount_, lastStepMs_, prevHp, rising,
                            stepsEver, sinceStep,
                   readFailed>>
           ELSE /\ ax_' = axes[1]
                /\ ay_' = axes[2]
                /\ az_' = axes[3]
                /\ mag_g_' = mag
                /\ prevRawMag_' = mag
                /\ hpVal_' = hp
                /\ stepCount_' = stepCountAfter(counted)
                /\ lastStepMs_' = IF counted THEN now ELSE lastStepMs_
                /\ rising' = risingAfter(hp)
                /\ prevHp' = hp
                /\ stepsEver' = IF counted THEN stepsEver + 1 ELSE stepsEver
                /\ sinceStep' = IF counted THEN 0 ELSE sinceStep
                /\ readFailed' = ~readOk
                /\ UNCHANGED wire_
        /\ UNCHANGED <<envVars, bufVars, calVars, vitalVars, bleVars, ioVars, mqttVars>>

getStepCount == stepCount_

\* a reset that also rewinds the refractory timer
resetStepCountAndTimer ==
    /\ stepCount_' = 0
    /\ lastStepMs_' = U32Zero
    /\ UNCHANGED <<wire_, ax_, ay_, az_, mag_g_, prevRawMag_, hpVal_,
                   prevHp, rising, stepCalls, stepsEver, sinceStep,
                   readFailed>>
    /\ UNCHANGED <<envVars, bufVars, calVars, vitalVars, bleVars, ioVars, mqttVars>>

resetStepCount ==
    /\ stepCount_' = 0
    /\ UNCHANGED <<wire_, ax_, ay_, az_, mag_g_, prevRawMag_, hpVal_,
                   lastStepMs_, prevHp, rising, stepCalls, stepsEver, sinceStep,
                   readFailed>>
    /\ UNCHANGED <<envVars, bufVars, calVars, vitalVars, bleVars, ioVars, mqttVars>>

\* clock advances of the step detector: within the refractory interval and
\* just past it
StepDeltas == { ToU32(300), ToU32(601) }

\* a long time without any call, which brings millis() close to its wrap
\* (2^32 - 901)
LongIdle == [hi |-> 65535, lo |-> 64635]

\* the real time since the last step after d more ms
SinceAfter(d) ==
    IF d.hi > 0 \/ sinceStep + d.lo > SinceCap THEN SinceCap
    ELSE sinceStep + d.lo

TickSteps ==
    /\ ticks < MaxStepTicks
    /\ \E d \in StepDeltas :
          /\ Advance(d)
          /\ sinceStep' = SinceAfter(d)
    /\ UNCHANGED <<wire_, ax_, ay_, az_, mag_g_, prevRawMag_, hpVal_,
                   stepCount_, lastStepMs_, prevHp, rising, stepCalls,
                   stepsEver,
                   readFailed>>
    /\ UNCHANGED <<bufVars, calVars, vitalVars, bleVars, ioVars, mqttVars>>

IdleSteps ==
    /\ ticks = 0
    /\ Advance(LongIdle)
    /\ sinceStep' = SinceAfter(LongIdle)
    /\ UNCHANGED <<wire_, ax_, ay_, az_, mag_g_, prevRawMag_, hpVal_,
                   stepCount_, lastStepMs_, prevHp, rising, stepCalls,
                   stepsEver,
                   readFailed>>
    /\ UNCHANGED <<bufVars, calVars, vitalVars, bleVars, ioVars, mqttVars>>

\* ------------------------------------------------------------------------
\* Max30102Manager / SensorManager (the vital-sign estimator)
\* ------------------------------------------------------------------------
RATE_SIZE == 4
RateSlots == 0 .. (RATE_SIZE - 1)

Estimators == { "Max30102Manager", "SensorManager" }

\* the samples the sensor can deliver: infrared and red intensity, and what
\* checkForBeat() answers when it is asked about the sample.  No finger
\* (below both thresholds), a weak signal (between the two classes'
\* thresholds, with a red intensity above the infrared one), a strong
\* signal with and without a beat.
VitalSamples ==
    { [ir |-> 20000, red |-> 15000, beat |-> TRUE],
      [ir |-> 40000, red |-> 60000, beat |-> TRUE],
      [ir |-> 60000, red |-> 30000, beat |-> TRUE],
      [ir |-> 60000, red |-> 30000, beat |-> FALSE] }

\* what particleSensor can hold for one readSensorData() of Max30102Manager:
\* no sample, one sample or two
FifoContents ==
    { <<>> } \cup { <<s>> : s \in VitalSamples }
             \cup { << [ir |-> 20000, red |-> 15000, beat |-> TRUE],
                        [ir |-> 20000, red |-> 15000, beat |-> TRUE] >>,
                     << [ir |-> 60000, red |-> 30000, beat |-> TRUE],
                        [ir |-> 60000, red |-> 30000, beat |-> TRUE] >> }

VitalInit ==
    /\ rates = [i \in RateSlots |-> 0]
    /\ rateSpot = 0
    /\ lastBeat = U32Zero
    /\ currentHR_ = 0
    /\ currentSPO2 = 9800
    /\ sensorStatus = 1
    /\ reads = 0
    /\ beatsEver = 0
    /\ acceptedEver = 0
    /\ lastAccepted = <<>>
    /\ lowRun = 0
    /\ rejectedWhileValid = FALSE

\* the infrared threshold of the presence gate: 30000 in Max30102Manager,
\* 50000 in SensorManager
IRThreshold == IF estimator = "Max30102Manager" THEN 30000 ELSE 50000

\* a presence gate that lets every sample through
belowThresholdNever(ir) == FALSE

\* the presence gate: irValue < 30000, irValue < 50000
belowThreshold(ir) == ir < IRThreshold

\* every sample of the sequence is below the infrared threshold
AllLow(samples) == \A i \in 1 .. Len(samples) : samples[i].ir < IRThreshold

\* the range test with the lower limit left out
bpmInRangeNoLower(delta) ==
    /\ delta.hi = 0
    /\ 60000 < 255 * delta.lo

\* beatsPerMinute < 255 && beatsPerMinute > 20 for beatsPerMinute =
\* 60.0 / (delta / 1000.0), delta a long: false for a negative delta, for
\* delta = 0 (the quotient is +infinity) and for delta >= 2^16
bpmInRange(delta) ==
    /\ delta.hi = 0
    /\ 60000 < 255 * delta.lo
    /\ 60000 > 20 * delta.lo

\* (byte)beatsPerMinute for a delta in range
bpmByte(delta) == 60000 \div delta.lo

\* a write index that never advances
nextRateSpotStuck(spot) == spot

\* rateSpot++; rateSpot %= RATE_SIZE
nextRateSpot(spot) == (spot + 1) % RATE_SIZE

\* an average over the slots written so far only
beatAverageOfWritten(r) ==
    LET written == {i \in RateSlots : r[i] # 0}
        n == IF written = {} THEN 1 ELSE Cardinality(written)
    IN  (r[0] + r[1] + r[2] + r[3]) \div n

\* beatAvg: the int sum of the four slots, divided by RATE_SIZE
beatAverage(r) == (r[0] + r[1] + r[2] + r[3]) \div RATE_SIZE

\* a currentSPO2 that is left as computed
ClampSpO2None(x) == x

\* clamp of currentSPO2 to [80, 100], in hundredths
ClampSpO2(x) == IF x > 10000 THEN 10000 ELSE IF x < 8000 THEN 8000 ELSE x

\* currentSPO2 after an accepted beat: 110 - 25 * red / ir when both are
\* positive (Max30102Manager), 95 + (100 - beatAvg) / 10 (SensorManager)
spo2Estimate(old, s, beatAvg) ==
    IF estimator = "Max30102Manager"
    THEN IF s.red > 0 /\ s.ir > 0
         THEN ClampSpO2(11000 - ((2500 * s.red) \div s.ir))
         ELSE old
    ELSE ClampSpO2(9500 + (100 - beatAvg) * 10)

\* the last (up to RATE_SIZE) elements of q with v appended
KeepLast(q, v) ==
    LET a == Append(q, v)
    IN  IF Len(a) > RATE_SIZE THEN Tail(a) ELSE a

\* the members (and the history of the running call) as one record
Members ==
    [rates |-> rates, rateSpot |-> rateSpot, lastBeat |-> lastBeat,
     currentHR |-> currentHR_, currentSPO2 |-> currentSPO2,
     sensorStatus |-> sensorStatus, lastAccepted |-> lastAccepted,
     beats |-> 0, accepted |-> 0]

\* a processSample() that reports valid data on every detected beat
processSampleValidOnAnyBeat(e, s, now) ==
    IF belowThreshold(s.ir)
    THEN [e EXCEPT !.sensorStatus = 1]
    ELSE IF ~s.beat
    THEN e
    ELSE LET delta == U32Sub(now, e.lastBeat)
             e1 == [e EXCEPT !.lastBeat = now, !.beats = @ + 1,
                             !.sensorStatus = 0]
         IN  IF bpmInRange(delta)
             THEN LET r == [e.rates EXCEPT ![e.rateSpot] = bpmByte(delta)]
                      beatAvg == beatAverage(r)
                  IN  [e1 EXCEPT
                         !.rates = r,
                         !.rateSpot = nextRateSpot(e.rateSpot),
                         !.currentHR = beatAvg,
                         !.currentSPO2 = spo2Estimate(e.currentSPO2, s, beatAvg),
                         !.sensorStatus = 0,
                         !.lastAccepted = KeepLast(@, bpmByte(delta)),
                         !.accepted = @ + 1]
             ELSE e1

\* what readSensorData() does with one sample s read at time now
processSample(e, s, now) ==
    IF belowThreshold(s.ir)
    THEN [e EXCEPT !.sensorStatus = 1]
    ELSE IF ~s.beat
    THEN e
    ELSE LET delta == U32Sub(now, e.lastBeat)
             e1 == [e EXCEPT !.lastBeat = now, !.beats = @ + 1]
         IN  IF bpmInRange(delta)
             THEN LET r == [e.rates EXCEPT ![e.rateSpot] = bpmByte(delta)]
                      beatAvg == beatAverage(r)
                  IN  [e1 EXCEPT
                         !.rates = r,
                         !.rateSpot = nextRateSpot(e.rateSpot),
                         !.currentHR = beatAvg,
                         !.currentSPO2 = spo2Estimate(e.currentSPO2, s, beatAvg),
                         !.sensorStatus = 0,
                         !.lastAccepted = KeepLast(@, bpmByte(delta)),
                         !.accepted = @ + 1]
             ELSE e1

\* the while (particleSensor.available()) loop over the samples
RECURSIVE processAll(_, _, _)
processAll(e, samples, now) ==
    IF samples = <<>> THEN e
    ELSE processAll(processSample(e, Head(samples), now), Tail(samples), now)

\* readSensorData() on the samples the sensor holds
readSensorData(samples) ==
    LET e == processAll(Members, samples, millis)
    IN  /\ reads < MaxVitalReads
        /\ rates' = e.rates
        /\ rateSpot' = e.rateSpot
        /\ lastBeat' = e.lastBeat
        /\ currentHR_' = e.currentHR
        /\ currentSPO2' = e.currentSPO2
        /\ sensorStatus' = e.sensorStatus
        /\ reads' = reads + 1
        /\ beatsEver' = beatsEver + e.beats
        /\ acceptedEver' = acceptedEver + e.accepted
        /\ lastAccepted' = e.lastAccepted
        /\ lowRun' = IF samples = <<>> THEN lowRun
                      ELSE IF AllLow(samples) THEN lowRun + Len(samples)
                      ELSE 0
        /\ rejectedWhileValid' = (/\ sensorStatus = 0
                                   /\ samples # <<>>
                                   /\ \A i \in 1 .. Len(samples) :
                                          samples[i].ir >= IRThreshold
                                   /\ e.beats > 0
                                   /\ e.accepted = 0)
        /\ UNCHANGED estimator
        /\ UNCHANGED <<envVars, bufVars, calVars, mpuVars, bleVars, ioVars, mqttVars>>

\* Max30102Manager::readSensorData(): every sample in the FIFO
Max30102Manager_readSensorData ==
    /\ estimator = "Max30102Manager"
    /\ \E samples \in FifoContents : readSensorData(samples)

\* SensorManager::readSensorData(): the one sample getIR() returns
SensorManager_readSensorData ==
    /\ estimator = "SensorManager"
    /\ \E s \in VitalSamples : readSensorData(<<s>>)

hasValidData == sensorStatus = 0

getCurrentData == [hr |-> currentHR_, spo2 |-> currentSPO2]

\* clock advances of the estimator: a too short beat interval and a
\* plausible one
VitalDeltas == { ToU32(200), ToU32(800) }

\* a long time without a reading after start-up, which takes millis() to
\* 2^31, where the long delta turns negative
VitalIdle == [hi |-> 32768, lo |-> 0]

\* the main loop calls readSensorData() at least as often as the clock
\* advances by one of these amounts
TickVital ==
    /\ ticks < MaxVitalTicks
    /\ ticks <= reads
    /\ \E d \in VitalDeltas : Advance(d)
    /\ UNCHANGED <<bufVars, calVars, mpuVars, vitalVars, bleVars, ioVars, mqttVars>>

IdleVital ==
    /\ ticks = 0
    /\ reads = 0
    /\ Advance(VitalIdle)
    /\ UNCHANGED <<bufVars, calVars, mpuVars, vitalVars, bleVars, ioVars, mqttVars>>

\* ------------------------------------------------------------------------
\* BLEServiceManager
\* ------------------------------------------------------------------------
\* the JSON document of a characteristic that holds none
NoJson ==
    [hr |-> 0, spo2 |-> 0, steps |-> 0, ts |-> 0, hasAlert |-> FALSE,
     alert |-> 0]

\* the health-data characteristic before begin() has created it
NoCharacteristic ==
    [created |-> FALSE, kind |-> "none", json |-> NoJson, bytes |-> <<>>]

BLEServiceManagerInit ==
    /\ clientConnected_ = FALSE
    /\ lastActivityMs_ = U32Zero
    /\ pHealthDataBatchChar_ = NoCharacteristic
    /\ notifications = 0
    /\ bleCalls = 0
    /\ bleCall = [op |-> "none", ret |-> FALSE]
    /\ alertArg = 0
    /\ batchTicks = 0
    /\ batchFailures = 0
    /\ userProfile_ = [gender |-> 1, weight |-> 65, height |-> 177,
                       age |-> 21, bmr |-> 0]
    /\ stepCountEnabled_ = TRUE
    /\ writes = 0
    /\ writeCall = [uuid |-> "none", value |-> 0]

\* begin(): creates the server, the services and the characteristics
BLEServiceManager_begin ==
    /\ ~pHealthDataBatchChar_.created
    /\ pHealthDataBatchChar_' = [pHealthDataBatchChar_ EXCEPT !.created = TRUE]
    /\ UNCHANGED <<clientConnected_, lastActivityMs_, notifications, bleCalls,
                   bleCall, alertArg, batchTicks, batchFailures>>
    /\ UNCHANGED <<envVars, bufVars, calVars, mpuVars, vitalVars, ioVars,
                   profileVars, mqttVars>>

\* onConnect(): the server calls it once begin() has registered the callbacks
onConnect ==
    /\ pHealthDataBatchChar_.created
    /\ ~clientConnected_
    /\ clientConnected_' = TRUE
    /\ UNCHANGED <<lastActivityMs_, pHealthDataBatchChar_, notifications,
                   bleCalls, bleCall, alertArg, batchTicks, batchFailures>>
    /\ UNCHANGED <<envVars, bufVars, calVars, mpuVars, vitalVars, ioVars,
                   profileVars, mqttVars>>

onDisconnect ==
    /\ clientConnected_
    /\ clientConnected_' = FALSE
    /\ UNCHANGED <<lastActivityMs_, pHealthDataBatchChar_, notifications,
                   bleCalls, bleCall, alertArg, batchTicks, batchFailures>>
    /\ UNCHANGED <<envVars, bufVars, calVars, mpuVars, vitalVars, ioVars,
                   profileVars, mqttVars>>

\* the characteristics onWrite() is registered for
WEIGHT_CHAR_UUID == "weight"
HEIGHT_CHAR_UUID == "height"
GENDER_CHAR_UUID == "gender"
AGE_CHAR_UUID == "age"
STEP_COUNT_ENABLED_CHAR_UUID == "stepCountEnabled"

\* the values a client writes: a uint16_t for weight (kg) and height (cm), a
\* uint8_t for gender, age and the step-count-enabled flag
WriteValues ==
    [u \in { WEIGHT_CHAR_UUID, HEIGHT_CHAR_UUID, GENDER_CHAR_UUID,
             AGE_CHAR_UUID, STEP_COUNT_ENABLED_CHAR_UUID } |->
        CASE u = WEIGHT_CHAR_UUID -> { 70, 65535 }
          [] u = HEIGHT_CHAR_UUID -> { 160 }
          [] u = GENDER_CHAR_UUID -> { 0, 1 }
          [] u = AGE_CHAR_UUID -> { 30 }
          [] OTHER -> { 0, 1, 2 }]

\* the Mifflin-St Jeor formula of onWrite(), in quarters of a kcal/day:
\* 10 * weight + 6.25 * (height * 100) - 5 * age + 5 for gender 1, - 161
\* otherwise
bmrOf(profile) ==
    40 * profile.weight + 25 * profile.height - 20 * profile.age
        + (IF profile.gender = 1 THEN 20 ELSE -644)

\* an onWrite() that goes on to the BMR after every write
returnsBeforeBmrNever(uuid) == FALSE

\* the write to the step-count-enabled characteristic returns before the
\* BMR is computed
returnsBeforeBmr(uuid) == uuid = STEP_COUNT_ENABLED_CHAR_UUID

\* onWrite(pCharacteristic): uuid is the characteristic written, value what
\* getData() points to, read as the integer type of the branch
onWrite(uuid, value) ==
    LET written ==
            CASE uuid = WEIGHT_CHAR_UUID -> [userProfile_ EXCEPT !.weight = value]
              [] uuid = HEIGHT_CHAR_UUID -> [userProfile_ EXCEPT !.height = value]
              [] uuid = GENDER_CHAR_UUID -> [userProfile_ EXCEPT !.gender = value]
              [] uuid = AGE_CHAR_UUID -> [userProfile_ EXCEPT !.age = value]
              [] OTHER -> userProfile_
    IN  /\ writes < MaxWrites
        /\ pHealthDataBatchChar_.created
        /\ lastActivityMs_' = millis
        /\ stepCountEnabled_' = IF uuid = STEP_COUNT_ENABLED_CHAR_UUID
                                THEN value # 0 ELSE stepCountEnabled_
        /\ userProfile_' = IF returnsBeforeBmr(uuid) THEN written
                           ELSE [written EXCEPT !.bmr = bmrOf(written)]
        /\ writes' = writes + 1
        /\ writeCall' = [uuid |-> uuid, value |-> value]
        /\ UNCHANGED <<clientConnected_, pHealthDataBatchChar_, notifications,
                       bleCalls, bleCall, alertArg, batchTicks, batchFailures>>
        /\ UNCHANGED <<envVars, bufVars, calVars, mpuVars, vitalVars, ioVars, mqttVars>>

getUserProfile == userProfile_

isStepCountEnabled == stepCountEnabled_

\* (int) of a float in tenths: truncation toward zero
ToInt(x) == IF x >= 0 THEN x \div 10 ELSE -((-x) \div 10)

\* round(alertScore * 10000) of a non-negative score in hundred-thousandths:
\* the score in ten-thousandths, halves rounded up
Round4(alertScore) == (alertScore + 5) \div 10

\* a buildHealthDataJSON() that writes the "alert" member for any score
buildHealthDataJSONWithAlertAlways(hr, spo2, steps, alertScore) ==
    [hr       |-> ToInt(hr),
     spo2     |-> ToInt(spo2),
     steps    |-> steps,
     ts       |-> U32ToInt(millis) \div 1000,
     hasAlert |-> TRUE,
     alert    |-> IF alertScore >= 0 THEN Round4(alertScore) ELSE 0]

\* buildHealthDataJSON(): hr and spo2 in tenths, alertScore in
\* hundred-thousandths; the "alert" member exists only for a score >= 0
buildHealthDataJSON(hr, spo2, steps, alertScore) ==
    [hr       |-> ToInt(hr),
     spo2     |-> ToInt(spo2),
     steps    |-> steps,
     ts       |-> U32ToInt(millis) \div 1000,
     hasAlert |-> alertScore >= 0,
     alert    |-> IF alertScore >= 0 THEN Round4(alertScore) ELSE 0]

\* a test that lets a notification through without a client
mayNotifyAlways == TRUE

\* the test the notifyHealthData...() functions start with: they return at
\* once if (!clientConnected_)
mayNotify == clientConnected_

\* a batch notification that reports success without a client
batchResultAlwaysTrue == TRUE

\* the value notifyHealthDataBatch() returns
batchResult == clientConnected_

\* what notifyHealthData() and notifyHealthDataWithAlert() do to the members
NotifyJson(op, hr, spo2, steps, alertScore) ==
    /\ bleCalls' = bleCalls + 1
    /\ bleCall' = [op |-> op, ret |-> FALSE]
    /\ alertArg' = alertScore
    /\ IF mayNotify
       THEN /\ pHealthDataBatchChar_' =
                 [pHealthDataBatchChar_ EXCEPT
                    !.kind = "json",
                    !.json = buildHealthDataJSON(hr, spo2, steps, alertScore),
                    !.bytes = <<>>]
            /\ notifications' = notifications + 1
       ELSE UNCHANGED <<pHealthDataBatchChar_, notifications>>
    /\ UNCHANGED <<clientConnected_, lastActivityMs_>>

\* the arguments of the realtime notifications: hr and spo2 in tenths, the
\* step count, the alert score in hundred-thousandths
NotifyInputs == [hr : {759}, spo2 : {985}, steps : {100}]
AlertScores == { -100000, -1, 0, 85005 }

notifyHealthData(hr, spo2, steps) ==
    /\ bleCalls < MaxBleCalls
    /\ NotifyJson("notifyHealthData", hr, spo2, steps, -100000)
    /\ UNCHANGED <<batchTicks, batchFailures>>
    /\ UNCHANGED <<envVars, bufVars, calVars, mpuVars, vitalVars, ioVars,
                   profileVars, mqttVars>>

notifyHealthDataWithAlert(hr, spo2, steps, alertScore) ==
    /\ bleCalls < MaxBleCalls
    /\ NotifyJson("notifyHealthDataWithAlert", hr, spo2, steps, alertScore)
    /\ UNCHANGED <<batchTicks, batchFailures>>
    /\ UNCHANGED <<envVars, bufVars, calVars, mpuVars, vitalVars, ioVars,
                   profileVars, mqttVars>>

\* what notifyHealthDataBatch(jsonData, len) does to the members; jsonData
\* is the array of samples the len bytes spell
BLEServiceManager_notifyHealthDataBatch(jsonData) ==
    /\ bleCalls' = bleCalls + 1
    /\ bleCall' = [op |-> "notifyHealthDataBatch", ret |-> batchResult]
    /\ IF mayNotify
       THEN /\ pHealthDataBatchChar_' =
                 [pHealthDataBatchChar_ EXCEPT
                    !.kind = "bytes", !.json = NoJson, !.bytes = jsonData]
            /\ notifications' = notifications + 1
            /\ lastActivityMs_' = millis
       ELSE UNCHANGED <<pHealthDataBatchChar_, notifications, lastActivityMs_>>
    /\ UNCHANGED <<clientConnected_, alertArg>>

notifyHealthDataBatch(jsonData) ==
    /\ bleCalls < MaxBleCalls
    /\ BLEServiceManager_notifyHealthDataBatch(jsonData)
    /\ UNCHANGED <<batchTicks, batchFailures>>
    /\ UNCHANGED <<envVars, bufVars, calVars, mpuVars, vitalVars, ioVars,
                   profileVars, mqttVars>>

isClientConnected == clientConnected_

\* ------------------------------------------------------------------------
\* Delivery mode controller, batch mode
\* ------------------------------------------------------------------------
\* one tick of the controller in batch mode: it polls shouldSend() and, when
\* true, serializes the batch and forwards it; it clears the buffer (which
\* resets the send timer) when the transport took the batch, and leaves the
\* buffer intact when the transport reports no receiver
batchTick ==
    /\ batchTicks < MaxBatchTicks
    /\ batchTicks' = batchTicks + 1
    /\ IF shouldSend
       THEN /\ BLEServiceManager_notifyHealthDataBatch(getCompressedData)
            /\ IF batchResult
               THEN /\ DataBuffer_clear
                    /\ UNCHANGED batchFailures
               ELSE /\ batchFailures' = batchFailures + 1
                    /\ UNCHANGED bufVars
       ELSE UNCHANGED <<bufVars, clientConnected_, lastActivityMs_,
                        pHealthDataBatchChar_, notifications, bleCalls,
                        bleCall, alertArg, batchFailures>>
    /\ UNCHANGED <<envVars, calVars, mpuVars, vitalVars, ioVars, profileVars,
                   mqttVars>>

\* the one sample the controller buffers in a run of the link
LinkSamples == { [hr |-> 759, spo2 |-> 985, steps |-> 100, now |-> 1700000001] }

LinkDeltas == { ToU32(1000) }

TickLink ==
    /\ ticks < MaxLinkTicks
    /\ \E d \in LinkDeltas : Advance(d)
    /\ UNCHANGED <<bufVars, calVars, mpuVars, vitalVars, bleVars, ioVars, mqttVars>>

\* ------------------------------------------------------------------------
\* Output of getCompressedData()
\* ------------------------------------------------------------------------
OutputInit ==
    /\ output = <<>>
    /\ returned = 0
    /\ serCalls = 0
    /\ serMaxLen = 0
    /\ queryCalls = 0
    /\ queryCall = [op |-> "none", ret |-> FALSE]

DigitChars == << "0", "1", "2", "3", "4", "5", "6", "7", "8", "9" >>

\* the decimal digits of a non-negative integer, as serializeJson() writes it
RECURSIVE Digits(_)
Digits(n) ==
    IF n < 10 THEN << DigitChars[n + 1] >>
    ELSE Append(Digits(n \div 10), DigitChars[(n % 10) + 1])

\* the characters "key":
KeyHr == << "\"", "h", "r", "\"", ":" >>
KeySpo2 == << "\"", "s", "p", "o", "2", "\"", ":" >>
KeySteps == << "\"", "s", "t", "e", "p", "s", "\"", ":" >>
KeyTs == << "\"", "t", "s", "\"", ":" >>

\* the minified JSON object of one sample
serializeObject(s) ==
    << "{" >> \o KeyHr \o Digits(s.hr) \o << "," >>
              \o KeySpo2 \o Digits(s.spo2) \o << "," >>
              \o KeySteps \o Digits(s.steps) \o << "," >>
              \o KeyTs \o Digits(s.timestamp) \o << "}" >>

\* the objects of a non-empty array, separated by commas
RECURSIVE serializeElements(_)
serializeElements(array) ==
    IF Len(array) = 1 THEN serializeObject(array[1])
    ELSE serializeObject(Head(array)) \o << "," >>
         \o serializeElements(Tail(array))

\* the characters serializeJson() produces for the array, given room for all
serializeJson(array) ==
    IF array = <<>> THEN << "[", "]" >>
    ELSE << "[" >> \o serializeElements(array) \o << "]" >>

\* ------------------------------------------------------------------------
\* The receiver's reading of a batch payload
\* ------------------------------------------------------------------------
IsDigit(c) == \E d \in 1 .. 10 : DigitChars[d] = c

DigitValue(c) == (CHOOSE d \in 1 .. 10 : DigitChars[d] = c) - 1

\* the characters from position i on begin with lit
StartsWith(chars, i, lit) ==
    /\ i + Len(lit) - 1 <= Len(chars)
    /\ SubSeq(chars, i, i + Len(lit) - 1) = lit

\* the first position from i on that holds no digit
RECURSIVE DigitsEnd(_, _)
DigitsEnd(chars, i) ==
    IF i <= Len(chars) /\ IsDigit(chars[i]) THEN DigitsEnd(chars, i + 1) ELSE i

\* the number the digits at positions i .. j - 1 spell
RECURSIVE NumberValue(_, _, _)
NumberValue(chars, i, j) ==
    IF i >= j THEN 0
    ELSE NumberValue(chars, i, j - 1) * 10 + DigitValue(chars[j - 1])

\* a payload that is no array of samples
NotParsed == [ok |-> FALSE, samples |-> <<>>]

\* "key":number at position i: whether it is there, its value, and the
\* position after it
ParseMember(chars, i, key) ==
    LET from == i + Len(key)
        to == DigitsEnd(chars, from)
    IN  IF StartsWith(chars, i, key) /\ to > from
        THEN [ok |-> TRUE, value |-> NumberValue(chars, from, to), next |-> to]
        ELSE [ok |-> FALSE, value |-> 0, next |-> i]

\* {"hr":n,"spo2":n,"steps":n,"ts":n} at position i
ParseObject(chars, i) ==
    LET hr == ParseMember(chars, i + 1, KeyHr)
        spo2 == ParseMember(chars, hr.next + 1, KeySpo2)
        steps == ParseMember(chars, spo2.next + 1, KeySteps)
        ts == ParseMember(chars, steps.next + 1, KeyTs)
    IN  IF /\ StartsWith(chars, i, << "{" >>)
           /\ hr.ok /\ StartsWith(chars, hr.next, << "," >>)
           /\ spo2.ok /\ StartsWith(chars, spo2.next, << "," >>)
           /\ steps.ok /\ StartsWith(chars, steps.next, << "," >>)
           /\ ts.ok /\ StartsWith(chars, ts.next, << "}" >>)
        THEN [ok |-> TRUE,
              sample |-> [hr |-> hr.value, spo2 |-> spo2.value,
                          steps |-> steps.value, timestamp |-> ts.value],
              next |-> ts.next + 1]
        ELSE [ok |-> FALSE, sample |-> ZeroSample, next |-> i]

\* the objects from position i on, up to the closing bracket that ends the
\* payload; acc holds the samples read so far
RECURSIVE ParseElements(_, _, _)
ParseElements(chars, i, acc) ==
    LET obj == ParseObject(chars, i)
    IN  IF ~obj.ok THEN NotParsed
        ELSE IF StartsWith(chars, obj.next, << "]" >>) /\ obj.next = Len(chars)
        THEN [ok |-> TRUE, samples |-> Append(acc, obj.sample)]
        ELSE IF StartsWith(chars, obj.next, << "," >>)
        THEN ParseElements(chars, obj.next + 1, Append(acc, obj.sample))
        ELSE NotParsed

\* the samples a payload spells, for a receiver that reads the array format
\* of getCompressedData()
Parse(chars) ==
    IF chars = << "[", "]" >> THEN [ok |-> TRUE, samples |-> <<>>]
    ELSE IF StartsWith(chars, 1, << "[" >>) THEN ParseElements(chars, 2, <<>>)
    ELSE NotParsed

\* the sizes of the output buffer a caller passes
OutputSizes == { 16, 64, 512 }

\* the number of characters serializeJson(array, output, maxLen) writes to
\* output: all of them if they fit; otherwise as many as there is room for,
\* which is maxLen, or maxLen - 1 in the library versions that keep the
\* last byte for the terminator
Written(full, maxLen, keepsTerminator) ==
    LET room == IF keepsTerminator /\ maxLen > 0 THEN maxLen - 1 ELSE maxLen
    IN  IF Len(full) <= room THEN Len(full) ELSE room

\* getCompressedData(output, maxLen): serializes the array into output and
\* returns the number of characters written
DataBuffer_getCompressedData(maxLen, keepsTerminator) ==
    LET full == serializeJson(getCompressedData)
        len == Written(full, maxLen, keepsTerminator)
    IN  /\ serCalls < MaxSerCalls
        /\ output' = SubSeq(full, 1, len)
        /\ returned' = len
        /\ serCalls' = serCalls + 1
        /\ serMaxLen' = maxLen
        /\ UNCHANGED <<queryCalls, queryCall>>
        /\ UNCHANGED <<envVars, bufVars, calVars, mpuVars, vitalVars, bleVars,
                   mqttVars>>

\* ------------------------------------------------------------------------
\* MQTTClientManager
\* ------------------------------------------------------------------------
\* the real time since the last attempt is followed up to this many ms
AttemptCap == 5002

MQTTClientManagerInit ==
    /\ mqttState = "disconnected"
    /\ lastReconnectAttempt = U32Zero
    /\ maintainCalls = 0
    /\ reconnectAttempts = 0
    /\ sinceAttempt = 0

\* mqttClient.connected() and isConnected()
isConnected == mqttState = "connected"

\* a pacing test that lets an attempt through at 5000 ms
reconnectDueAtInterval(now) ==
    U32Ge(U32Sub(now, lastReconnectAttempt), 5000)

\* now - lastReconnectAttempt > 5000
reconnectDue(now) == U32Gt(U32Sub(now, lastReconnectAttempt), 5000)

\* what connect() does to the client: nothing when it is connected,
\* otherwise mqttClient.connect() succeeds or fails
MQTTClientManager_connect(succeeds) ==
    mqttState' = IF isConnected THEN mqttState
                 ELSE IF succeeds THEN "connected" ELSE "connectFailed"

\* connect() called from outside maintain() (the publish functions call it
\* when the client is down)
connect(succeeds) ==
    /\ ~isConnected
    /\ MQTTClientManager_connect(succeeds)
    /\ UNCHANGED <<lastReconnectAttempt, maintainCalls, reconnectAttempts,
                   sinceAttempt>>
    /\ UNCHANGED <<envVars, bufVars, calVars, mpuVars, vitalVars, bleVars,
                   ioVars>>

\* maintain()
maintain(succeeds) ==
    LET now == millis
        attempt == ~isConnected /\ reconnectDue(now)
    IN  /\ maintainCalls < MaxMaintainCalls
        /\ maintainCalls' = maintainCalls + 1
        /\ IF attempt
           THEN /\ lastReconnectAttempt' = now
                /\ MQTTClientManager_connect(succeeds)
                /\ reconnectAttempts' = reconnectAttempts + 1
                /\ sinceAttempt' = 0
           ELSE UNCHANGED <<lastReconnectAttempt, mqttState,
                            reconnectAttempts, sinceAttempt>>
        /\ UNCHANGED <<envVars, bufVars, calVars, mpuVars, vitalVars, bleVars,
                       ioVars>>

\* the broker or the network drops the connection
connectionLost ==
    /\ isConnected
    /\ mqttState' = "connectionLost"
    /\ UNCHANGED <<lastReconnectAttempt, maintainCalls, reconnectAttempts,
                   sinceAttempt>>
    /\ UNCHANGED <<envVars, bufVars, calVars, mpuVars, vitalVars, bleVars,
                   ioVars>>

\* clock advances of the MQTT client: two of them make 5000 ms, 5001 ms or
\* 5002 ms
MqttDeltas == { ToU32(2500), ToU32(2501) }

\* a long time without any call, which brings millis() close to its wrap
\* (2^32 - 2501)
MqttIdle == [hi |-> 65535, lo |-> 63035]

\* the real time since the last attempt after d more ms
SinceAttemptAfter(d) ==
    IF d.hi > 0 \/ sinceAttempt + d.lo > AttemptCap THEN AttemptCap
    ELSE sinceAttempt + d.lo

TickMqtt ==
    /\ ticks < MaxMqttTicks
    /\ \E d \in MqttDeltas :
          /\ Advance(d)
          /\ sinceAttempt' = SinceAttemptAfter(d)
    /\ UNCHANGED <<mqttState, lastReconnectAttempt, maintainCalls,
                   reconnectAttempts>>
    /\ UNCHANGED <<bufVars, calVars, mpuVars, vitalVars, bleVars, ioVars>>

IdleMqtt ==
    /\ ticks = 0
    /\ Advance(MqttIdle)
    /\ sinceAttempt' = SinceAttemptAfter(MqttIdle)
    /\ UNCHANGED <<mqttState, lastReconnectAttempt, maintainCalls,
                   reconnectAttempts>>
    /\ UNCHANGED <<bufVars, calVars, mpuVars, vitalVars, bleVars, ioVars>>

\* ------------------------------------------------------------------------
\* Specification of the buffer: addSample() and clear() at any clock value
\* ------------------------------------------------------------------------
BufDeltas == { ToU32(DATA_SEND_INTERVAL_MS) }

TickBuf ==
    /\ ticks < MaxBufTicks
    /\ \E d \in BufDeltas : Advance(d)
    /\ UNCHANGED <<bufVars, calVars, mpuVars, vitalVars, bleVars, ioVars, mqttVars>>

\* the state after the constructors have run, whichever estimator is built in
InitAnyEstimator ==
    /\ millis = U32Zero
    /\ ticks = 0
    /\ DataBufferInit
    /\ CalorieManagerInit
    /\ MPU6050ManagerInit
    /\ VitalInit
    /\ estimator \in Estimators
    /\ BLEServiceManagerInit
    /\ OutputInit
    /\ MQTTClientManagerInit

Init ==
    /\ InitAnyEstimator
    /\ estimator = "Max30102Manager"

NextBuf ==
    \/ \E in \in SampleInputs : addSample(in)
    \/ clear
    \/ TickBuf

SpecBuf == Init /\ [][NextBuf]_vars

\* Specification of the calorie manager: update() and reset() at any cadence
NextCal ==
    \/ UpdateCal
    \/ reset
    \/ TickCal

SpecCal == Init /\ [][NextCal]_vars

\* The same with any profile the UserProfile type allows passed to update()
NextCalAnyProfile ==
    \/ UpdateCalAnyProfile
    \/ reset
    \/ TickCal

SpecCalAnyProfile == Init /\ [][NextCalAnyProfile]_vars

\* The calorie manager fed the running total of a step counter
NextCalNonDecreasing ==
    \/ UpdateCalNonDecreasing
    \/ reset
    \/ TickCal

SpecCalNonDecreasing == Init /\ [][NextCalNonDecreasing]_vars

\* Specification of the step detector: begin(), update() and
\* resetStepCount() on any readings at any clock value
NextSteps ==
    \/ \E regsOk \in BOOLEAN, readOk \in BOOLEAN, a \in AccelInputs :
          begin(regsOk, readOk, a)
    \/ \E readOk \in BOOLEAN, a \in AccelInputs : updateSteps(readOk, a)
    \/ resetStepCount
    \/ TickSteps
    \/ IdleSteps

SpecSteps == Init /\ [][NextSteps]_vars

\* Specification of the vital-sign estimator: readSensorData() on any
\* samples at any clock value, for either estimator class
NextVital ==
    \/ Max30102Manager_readSensorData
    \/ SensorManager_readSensorData
    \/ TickVital
    \/ IdleVital

SpecVital == InitAnyEstimator /\ [][NextVital]_vars

\* Specification of the link: the BLE callbacks, the realtime notifications
\* and the batch delivery of a buffer that fills up
NextLink ==
    \/ BLEServiceManager_begin
    \/ onConnect
    \/ onDisconnect
    \/ \E in \in NotifyInputs : notifyHealthData(in.hr, in.spo2, in.steps)
    \/ \E in \in NotifyInputs, alertScore \in AlertScores :
            notifyHealthDataWithAlert(in.hr, in.spo2, in.steps, alertScore)
    \/ notifyHealthDataBatch(getCompressedData)
    \/ \E in \in LinkSamples : addSample(in)
    \/ batchTick
    \/ TickLink

SpecLink == Init /\ [][NextLink]_vars

\* Specification of the profile: writes to the five characteristics at any
\* clock value, once begin() has created them
NextProfile ==
    \/ BLEServiceManager_begin
    \/ \E uuid \in DOMAIN WriteValues : \E value \in WriteValues[uuid] :
            onWrite(uuid, value)
    \/ TickLink

SpecProfile == Init /\ [][NextProfile]_vars

\* Specification of the MQTT client: maintain() called at any cadence, with
\* connections made, refused and lost, and connect() called by the publish
\* functions
NextMqtt ==
    \/ \E succeeds \in BOOLEAN : maintain(succeeds)
    \/ \E succeeds \in BOOLEAN : connect(succeeds)
    \/ connectionLost
    \/ TickMqtt
    \/ IdleMqtt

SpecMqtt == Init /\ [][NextMqtt]_vars

\* Specification of the serialization: getCompressedData() into output
\* buffers of several sizes, of a buffer that holds a few samples
NextSer ==
    \/ \E in \in SampleInputs : adds < MaxSerAdds /\ addSample(in)
    \/ \E maxLen \in OutputSizes, keepsTerminator \in BOOLEAN :
            DataBuffer_getCompressedData(maxLen, keepsTerminator)

SpecSer == Init /\ [][NextSer]_vars

\* Specification of the clamping: addSample() on arguments inside and outside
\* the ranges of the stored fields
NextClamp == \E in \in ClampInputs : adds < MaxClampAdds /\ addSample(in)

SpecClamp == Init /\ [][NextClamp]_vars

\* Specification of the buffer's queries: the const member functions and
\* resetSendTimer() called between addSample() and clear() at any clock value
NextQuery ==
    \/ \E in \in QuerySamples : adds < MaxQueryAdds /\ addSample(in)
    \/ clear
    \/ TickBuf
    \/ resetSendTimer
    \/ DataBuffer_shouldSend
    \/ DataBuffer_isFull
    \/ DataBuffer_getCount
    \/ DataBuffer_getLatestSample

SpecQuery == Init /\ [][NextQuery]_vars

\* ------------------------------------------------------------------------
\* Properties of the buffer
\* ------------------------------------------------------------------------
\* the last n elements of a sequence s (all of s when it is shorter)
LastN(s, n) == IF Len(s) <= n THEN s ELSE SubSeq(s, Len(s) - n + 1, Len(s))

\* millis() - firstSampleMs_ has reached the send interval
SendIntervalElapsed ==
    U32Ge(U32Sub(millis, firstSampleMs_), DATA_SEND_INTERVAL_MS)

\* an addSample() call is the step that raises the number of calls made
AddStep == adds' = adds + 1

\* C1 (bounds): count stays in 0..HR_BUFFER_SIZE and head in
\* 0..HR_BUFFER_SIZE-1 in every reachable state.
C1_Bounds ==
    /\ count_ \in 0 .. HR_BUFFER_SIZE
    /\ head_ \in 0 .. (HR_BUFFER_SIZE - 1)

\* C1 (write on a full buffer): an addSample() made when count equals
\* HR_BUFFER_SIZE leaves count unchanged, advances head by one modulo
\* HR_BUFFER_SIZE, writes only the slot that held the oldest stored sample,
\* and the buffer then holds the HR_BUFFER_SIZE most recent samples.
C1_FullAdd ==
    (AddStep /\ count_ = HR_BUFFER_SIZE) =>
        /\ count_' = count_
        /\ head_' = (head_ + 1) % HR_BUFFER_SIZE
        /\ buffer_[head_] = added[Len(added) - HR_BUFFER_SIZE + 1]
        /\ buffer_'[head_] = added'[Len(added')]
        /\ \A i \in Slots \ {head_} : buffer_'[i] = buffer_[i]
        /\ \A i \in 1 .. HR_BUFFER_SIZE :
              buffer_'[(head_' + i - 1) % HR_BUFFER_SIZE]
                  = added'[Len(added') - HR_BUFFER_SIZE + i]

\* C1: ring buffer bound. After any sequence of addSample() and clear()
\* calls 0 <= count <= HR_BUFFER_SIZE and 0 <= head < HR_BUFFER_SIZE, and an
\* addSample() on a full buffer keeps count, overwrites the oldest stored
\* sample and advances head by one modulo HR_BUFFER_SIZE.
C1_RingBufferBound == [](C1_Bounds) /\ [][C1_FullAdd]_vars

\* C1 witness: a full buffer that has been written once more after filling.
C1_Witness ==
    /\ count_ = HR_BUFFER_SIZE
    /\ Len(added) = HR_BUFFER_SIZE + 1
    /\ head_ = 1

C4_TimeoutSends ==
    /\ count_ < MIN_SAMPLES_TO_SEND => ~shouldSend
    /\ count_ = HR_BUFFER_SIZE => shouldSend
    /\ (count_ > 0 /\ SendIntervalElapsed) => shouldSend

\* a clear() call is the step that raises the number of calls made
ClearStep == clears' = clears + 1

\* C21: clear() sets count, head and the first-sample time to their empty
\* values and leaves the stored samples untouched; after it getCount() is 0
\* and shouldSend() is false, and the next addSample() writes slot 0 and
\* records a new first-sample time
C21_ClearFrame ==
    /\ [][ClearStep =>
            /\ count_' = 0
            /\ head_' = 0
            /\ firstSampleMs_' = U32Zero
            /\ buffer_' = buffer_
            /\ getCount' = 0
            /\ ~shouldSend']_vars
    /\ [][(AddStep /\ clears > 0 /\ added = <<>>) =>
            /\ buffer_'[0] = added'[1]
            /\ \A i \in Slots \ {0} : buffer_'[i] = buffer_[i]
            /\ head_' = 1
            /\ firstSampleMs_' = millis]_vars

\* after a clear() of a buffer that held several samples one sample was
\* added, at a later time than the first one: the samples of the other
\* slots are still there
C21_Witness ==
    /\ clears = 1
    /\ Len(added) = 1
    /\ count_ = 1
    /\ buffer_[0] = added[1]
    /\ buffer_[0] # buffer_[1]
    /\ buffer_[1] # ZeroSample
    /\ firstSampleMs_ # U32Zero

\* C22: getLatestSample() returns the sample written by the most recent
\* addSample() since the last clear(), also after wrap-around, and an
\* all-zero sample when the buffer is empty, also right after a clear() of a
\* buffer that held data
C22_LatestSample ==
    /\ added = <<>> => getLatestSample = ZeroSample
    /\ added # <<>> => getLatestSample = added[Len(added)]

\* a buffer cleared after use and then filled until head wrapped to 0
C22_Witness ==
    /\ clears = 1
    /\ head_ = 0
    /\ count_ = HR_BUFFER_SIZE
    /\ getLatestSample = buffer_[HR_BUFFER_SIZE - 1]
    /\ getLatestSample # buffer_[0]

\* the stored byte for an argument in tenths: 0 below the range, the upper
\* end above it, the whole part inside it
ClampedTo(x, high) ==
    IF x < 0 THEN 0 ELSE IF x > high * 10 THEN high ELSE x \div 10

\* C23: every sample addSample() stores has hr clamped to [0, 255] and spo2
\* clamped to [0, 100] for any argument values, with steps stored unchanged;
\* hence every stored and every serialized sample has 0 <= hr <= 255 and
\* 0 <= spo2 <= 100
C23_StoredClamped ==
    /\ [][AddStep =>
            /\ buffer_'[head_].hr = ClampedTo(addCall'.hr, 255)
            /\ buffer_'[head_].spo2 = ClampedTo(addCall'.spo2, 100)
            /\ buffer_'[head_].steps = addCall'.steps]_vars
    /\ [](\A i \in Slots :
            buffer_[i].hr \in 0 .. 255 /\ buffer_[i].spo2 \in 0 .. 100)
    /\ [](\A i \in 1 .. Len(getCompressedData) :
            /\ getCompressedData[i].hr \in 0 .. 255
            /\ getCompressedData[i].spo2 \in 0 .. 100)

\* a sample stored from arguments above both ranges after one stored from
\* arguments below them
C23_Witness ==
    /\ count_ = 2
    /\ addCall.hr = 3000
    /\ addCall.spo2 = 2000
    /\ addCall.steps = 2000000000
    /\ buffer_[1] = [hr |-> 255, spo2 |-> 100, steps |-> 2000000000,
                     timestamp |-> 1700000001]
    /\ buffer_[0].hr = 0
    /\ buffer_[0].spo2 = 0

\* C24: addSample() returns true exactly when count equals the capacity
\* after the write, and records the first-sample time only when the buffer
\* was empty before the call: later calls, overwriting ones included, leave
\* it unchanged until clear()
C24_AddSampleResult ==
    [][AddStep =>
        /\ addCall'.ret <=> (count_' = HR_BUFFER_SIZE)
        /\ count_ = 0 => firstSampleMs_' = millis
        /\ count_ > 0 => firstSampleMs_' = firstSampleMs_]_vars

\* an overwriting addSample() made after the clock had moved on from the
\* first sample: it returned true and the first-sample time is still the old
\* one
C24_Witness ==
    /\ Len(added) = HR_BUFFER_SIZE + 1
    /\ count_ = HR_BUFFER_SIZE
    /\ addCall.ret
    /\ firstSampleMs_ # millis

\* C33: while the buffer is not full head == count, and the samples stored
\* since the last clear() occupy slots 0 .. count-1 in insertion order, so
\* that the walk of getCompressedData() from slot 0 is chronological; this
\* holds after any sequence of addSample() and clear() calls
C33_HeadIsCountUntilFull ==
    ~isFull =>
        /\ head_ = count_
        /\ Len(added) = count_
        /\ \A i \in 1 .. count_ : buffer_[i - 1] = added[i]
        /\ getCompressedData = added

\* C33 witness: the buffer wrapped (11 samples), was cleared and has taken
\* one sample since: slot 0 holds it, slot 1 still holds a sample from
\* before the clear().
C33_Witness ==
    /\ clears = 1
    /\ adds = 12
    /\ count_ = 1
    /\ head_ = 1
    /\ buffer_[0] = added[1]
    /\ buffer_[1] # ZeroSample

\* ------------------------------------------------------------------------
\* Properties of the calorie manager
\* ------------------------------------------------------------------------
\* an update() call is the step that raises the number of calls made
UpdateStep == calUpdates' = calUpdates + 1

\* the time elapsed since the last heart-rate charge has reached 60000 ms
SinceHRCharge60s == U32Ge(U32Sub(millis, hrChargeMs), 60000)

\* C5: step energy is charged on the delta only. An update() whose
\* totalSteps exceeds the last seen count adds exactly
\* (totalSteps - lastStepCount) x 0.04 x (weightKg / 70) kcal of step energy
\* (in units of 1/7000 kcal: delta x weight x 4) on top of the call's
\* heart-rate term and takes totalSteps as the last seen count; an update()
\* with the same totalSteps as the last seen count adds no step energy.
C5_StepEnergyOnDelta ==
    [][UpdateStep =>
        /\ calCall'.totalSteps > lastStepCount_ =>
              /\ totalCalories_' - totalCalories_ - calCall'.hrCal
                    = (calCall'.totalSteps - lastStepCount_) * calCall'.weight * 4
              /\ lastStepCount_' = calCall'.totalSteps
        /\ calCall'.totalSteps = lastStepCount_ =>
              /\ totalCalories_' - totalCalories_ = calCall'.hrCal
              /\ lastStepCount_' = lastStepCount_
    ]_vars

\* C5 witness: 100 new steps (1000 -> 1100) at 70 kg have added 4.0 kcal
\* (28000 units of 1/7000 kcal).
C5_Witness ==
    /\ calUpdates >= 2
    /\ calCall.totalSteps = 1100
    /\ calCall.weight = 70
    /\ calCall.stepCal = 28000
    /\ lastStepCount_ = 1100

\* C6 as claimed: an update() call with 50 < hr < 200 made at a time at least
\* 60000 ms after the previous heart-rate evaluation (with no reset() since
\* that evaluation) adds the heart-rate energy, however many update() calls
\* were made in between.
C6_HRChargedAfter60s ==
    [][(/\ UpdateStep
        /\ hrEvaluatedSinceReset
        /\ U32Ge(U32Sub(millis, hrEvalMs), 60000)
        /\ calCall'.currentHR > 50
        /\ calCall'.currentHR < 200)
       => calCall'.hrCharged]_vars

\* C7: two heart-rate charges are never made less than 60000 ms apart, and
\* the first update() after construction or reset() makes no heart-rate
\* charge.
C7_HRChargesApart ==
    [][UpdateStep =>
        /\ calFresh => ~calCall'.hrCharged
        /\ (calCall'.hrCharged /\ hrCharges > 0) => SinceHRCharge60s
    ]_vars

\* C7 witness: a second heart-rate charge has been made.
C7_Witness ==
    /\ hrCharges = 2
    /\ calCall.hrCharged
    /\ calCall.hrCal > 0

ResetStep == calUpdates' = calUpdates /\ ticks' = ticks

\* C27: reset() sets totalCalories, the last-seen step count and the
\* last-update time to zero, and getTotalCalories() returns 0 right after
\* reset(), whatever happened before.
C27_ResetZeroes ==
    [][ResetStep =>
        /\ totalCalories_' = 0
        /\ lastStepCount_' = 0
        /\ lastUpdateMs_' = U32Zero
        /\ getTotalCalories' = 0]_vars

\* C27 witness: reset() has been called after update() calls that charged
\* step energy and heart-rate energy, and everything reads zero.
C27_Witness ==
    /\ calFresh
    /\ calUpdates >= 2
    /\ hrCharges >= 1
    /\ calCall.stepCal > 0
    /\ getTotalCalories = 0
    /\ lastStepCount_ = 0
    /\ lastUpdateMs_ = U32Zero

\* C34: an update() call whose totalSteps is less than or equal to the last
\* seen step count charges no step energy (totalCalories grows by the
\* heart-rate term of the call alone) and leaves the last seen step count
\* unchanged.
C34_NoNewStepsNoCharge ==
    [][(UpdateStep /\ calCall'.totalSteps <= lastStepCount_) =>
        /\ calCall'.stepCal = 0
        /\ totalCalories_' = totalCalories_ + calCall'.hrCal
        /\ lastStepCount_' = lastStepCount_]_vars

\* C34 witness: update() was given 1000 steps after 1100 had been seen, and
\* the last seen count still is 1100.
C34_Witness ==
    /\ calUpdates >= 2
    /\ calCall.totalSteps = 1000
    /\ lastStepCount_ = 1100
    /\ calCall.stepCal = 0

\* C32 as claimed: across update() and reset() calls fed a non-decreasing
\* totalSteps, the number of steps step energy has been charged for since
\* construction never exceeds the latest totalSteps.
C32_NoStepChargedTwice ==
    calUpdates >= 1 => chargedSteps <= calCall.totalSteps

\* C30: an update() whose heart rate is not strictly between 50 and 200
\* makes no heart-rate charge: totalCalories grows by the step energy of the
\* call alone, and the call completes as usual (the last-update time is
\* taken).
C30_InvalidHRSkipped ==
    [][(/\ UpdateStep
        /\ (calCall'.currentHR <= 50 \/ calCall'.currentHR >= 200))
       => /\ ~calCall'.hrCharged
          /\ calCall'.hrCal = 0
          /\ totalCalories_' = totalCalories_ + calCall'.stepCal
          /\ lastUpdateMs_' = millis]_vars

\* C30 witness: an update() with heart rate 200 came 60000 ms or more after
\* the previous one, so the heart-rate evaluation was due, and nothing was
\* charged for the heart rate.
C30_Witness ==
    /\ calUpdates >= 2
    /\ calCall.hrDue
    /\ calCall.currentHR = 200
    /\ ~calCall.hrCharged
    /\ calCall.hrCal = 0
    /\ lastUpdateMs_ = calCall.now

\* ------------------------------------------------------------------------
\* Properties of MPU6050Manager
\* ------------------------------------------------------------------------

\* a step of the model that is one call of MPU6050Manager::update()
UpdateStepsStep == stepCalls' = stepCalls + 1

\* a call of update() that counts a step
StepCounted == UpdateStepsStep /\ stepsEver' = stepsEver + 1

\* C9: whenever update() counts a step, at least minStepIntervalMs_ of real
\* time have passed since the previous counted step, or since start-up for
\* the first step, also when millis() has wrapped in between; the new
\* timestamp is then more than minStepIntervalMs_ ahead of the previous one
\* in 32-bit arithmetic.
C9_RefractoryInterval ==
    [][StepCounted =>
          /\ sinceStep >= minStepIntervalMs_
          /\ lastStepMs_' = millis
          /\ U32Gt(U32Sub(lastStepMs_', lastStepMs_), minStepIntervalMs_)]_vars

\* two steps counted, the first just before millis() wraps and the second
\* just after the wrap
C9_Witness ==
    /\ stepsEver = 2
    /\ ticks = 3
    /\ lastStepMs_ = ToU32(301)
    /\ sinceStep = 0

\* C10: a call of update() leaves stepCount_ unchanged or adds exactly one to
\* it, and only resetStepCount() lowers it (to zero, outside update()).
C10_StepCountMonotone ==
    [][/\ UpdateStepsStep => stepCount_' \in {stepCount_, stepCount_ + 1}
       /\ stepCount_' < stepCount_ => ~UpdateStepsStep /\ stepCount_' = 0]_vars

\* update() has counted two steps, with a resetStepCount() between them
C10_Witness ==
    /\ stepsEver = 2
    /\ stepCount_ = 1
    /\ stepCalls >= 4

\* the axis values and what update() computes from them
AxesNow == <<ax_, ay_, az_>>

\* C36: a failed bus read does not stop the step detector: an update() whose
\* bus read fails leaves the axis values as they were and runs to its end
\* on them (magnitude, high-pass value and the previous high-pass value are
\* taken from the stale axes, and the peak test runs); an update() called
\* before a bus was attached changes no state at all
C36_FailedReadKeepsGoing ==
    [][UpdateStepsStep =>
        /\ (wire_ /\ readFailed') =>
              /\ AxesNow' = AxesNow
              /\ mag_g_' = MagnitudeG[AxesNow]
              /\ prevRawMag_' = mag_g_'
              /\ hpVal_' = highPass(mag_g_')
              /\ prevHp' = hpVal_'
              /\ stepCount_' \in { stepCount_, stepCount_ + 1 }
        /\ ~wire_ =>
              UNCHANGED <<wire_, ax_, ay_, az_, mag_g_, prevRawMag_, hpVal_,
                          stepCount_, lastStepMs_, prevHp, rising>>]_vars

\* the second update() call read nothing from the bus, ran on the footfall
\* reading the first call had taken, and counted the step
C36_Witness ==
    /\ wire_
    /\ readFailed
    /\ stepCalls = 2
    /\ stepsEver = 1
    /\ stepCount_ = 1
    /\ AxesNow = <<0, 0, 32767>>

\* a step of the model that is one call of resetStepCount(): the only
\* operation of the step detector that is neither a call of begin() or
\* update() nor a clock advance
ResetStepCountStep ==
    /\ stepCalls' = stepCalls
    /\ ticks' = ticks
    /\ wire_' = wire_

\* C11: resetStepCount() sets the step counter to 0 and leaves lastStepMs_
\* and all filter state unchanged, so that an update() made within the
\* refractory interval of the last counted step, reset or not, counts
\* nothing.
C11_ResetKeepsRefractory ==
    [][/\ ResetStepCountStep =>
            /\ stepCount_' = 0
            /\ UNCHANGED <<lastStepMs_, hpVal_, prevRawMag_, mag_g_, prevHp,
                           rising, ax_, ay_, az_>>
       /\ (UpdateStepsStep /\ sinceStep < minStepIntervalMs_) =>
            stepCount_' = stepCount_]_vars

\* one step was counted, the counter was reset, and 300 ms after that step a
\* 2 g peak was seen and not counted
C11_Witness ==
    /\ stepsEver = 1
    /\ stepCount_ = 0
    /\ sinceStep = 300
    /\ stepCalls = 4
    /\ hpVal_ = -59
    /\ ~rising

\* C12: update() counts a step only on a call where the high-pass signal
\* falls after a rise and the previous filtered value was above
\* stepThreshold_; every call that sees such a fall clears the rising flag,
\* counted or not, so that a dropped peak is not counted by a later call.
C12_CountOnlyAtPeak ==
    [][/\ StepCounted =>
            /\ rising
            /\ hpVal_' < prevHp
            /\ prevHp > stepThreshold_
       /\ (UpdateStepsStep /\ wire_ /\ rising /\ hpVal_' < prevHp) =>
            ~rising']_vars

\* a 1.5 g movement peaked below the threshold long after start-up, was
\* dropped, and a further update() counted nothing
C12_Witness ==
    /\ wire_
    /\ stepsEver = 0
    /\ stepCalls = 3
    /\ sinceStep > minStepIntervalMs_
    /\ mag_g_ = 1000
    /\ hpVal_ = -16
    /\ ~rising


\* ------------------------------------------------------------------------
\* Properties of the vital-sign estimator
\* ------------------------------------------------------------------------
\* a step is a readSensorData() call
ReadSensorDataStep == reads' = reads + 1

\* a readSensorData() call that read at least one sample and found every
\* sample below the infrared threshold
AllLowStep == ReadSensorDataStep /\ lowRun' > lowRun

\* C13: a readSensorData() call whose samples are all below the infrared
\* threshold sets the validity flag to false (sensorStatus = 1) and processes
\* no beat: heart rate, SpO2, ring, write index and last-beat time keep their
\* values; over any run of such samples the validity flag stays false
C13_PresenceGate ==
    /\ [][AllLowStep =>
            /\ sensorStatus' = 1
            /\ beatsEver' = beatsEver
            /\ UNCHANGED <<rates, rateSpot, lastBeat, currentHR_,
                           currentSPO2>>]_vars
    /\ [](lowRun > 0 => ~hasValidData)

\* five consecutive samples below the threshold, after a beat had been
\* accepted and a heart rate computed
C13_Witness ==
    /\ lowRun >= 5
    /\ acceptedEver >= 1
    /\ currentHR_ > 0
    /\ sensorStatus = 1

\* the sum of a sequence of numbers
RECURSIVE SumSeq(_)
SumSeq(q) == IF q = <<>> THEN 0 ELSE Head(q) + SumSeq(Tail(q))

\* a readSensorData() call that accepted no beat leaves the heart rate and
\* the ring as they were
RejectedNeverReflected ==
    [][(ReadSensorDataStep /\ acceptedEver' = acceptedEver) =>
            UNCHANGED <<currentHR_, rates, rateSpot>>]_vars

\* C14 as stated: once a beat has been accepted the heart rate is the mean
\* of the last min(4, N) accepted BPM values (whole numbers, the mean
\* truncated), and a rejected value is never reflected
C14_MeanOfLastAccepted ==
    /\ [](acceptedEver >= 1 =>
            currentHR_ = SumSeq(lastAccepted) \div Len(lastAccepted))
    /\ RejectedNeverReflected

\* C14 (amended): once a beat has been accepted the heart rate is the sum of
\* the last min(4, N) accepted BPM values (whole numbers) divided by 4 and
\* truncated, which is their truncated mean only once N >= 4; a rejected
\* value is never reflected
C14_SumOfLastAcceptedOverFour ==
    /\ [](acceptedEver >= 1 =>
            /\ Len(lastAccepted) = (IF acceptedEver < RATE_SIZE
                                    THEN acceptedEver ELSE RATE_SIZE)
            /\ currentHR_ = SumSeq(lastAccepted) \div RATE_SIZE)
    /\ RejectedNeverReflected

\* four beats accepted, not all with the same BPM, and a detected beat
\* rejected among them
C14_Witness ==
    /\ acceptedEver = 4
    /\ beatsEver > acceptedEver
    /\ lastAccepted[1] # lastAccepted[4]
    /\ currentHR_ = SumSeq(lastAccepted) \div RATE_SIZE

\* the slot written j accepted beats ago (j = 1 for the latest)
SlotBack(j) == (rateSpot + RATE_SIZE - j) % RATE_SIZE

\* C15: after every accepted beat the heart rate is the truncating integer
\* mean of all four slots of the ring; slots not yet written hold 0; the
\* accepted BPM values are written to slots 0, 1, 2, 3, 0, ... in turn
C15_MeanOfAllSlots ==
    /\ acceptedEver >= 1 =>
            currentHR_ = (rates[0] + rates[1] + rates[2] + rates[3]) \div 4
    /\ rateSpot = acceptedEver % 4
    /\ \A i \in RateSlots : i >= acceptedEver => rates[i] = 0
    /\ \A j \in 1 .. Len(lastAccepted) :
            rates[SlotBack(j)] = lastAccepted[Len(lastAccepted) + 1 - j]

\* the fifth accepted beat has been written to slot 0 again
C15_Witness ==
    /\ acceptedEver = 5
    /\ rateSpot = 1
    /\ rates[0] = lastAccepted[4]
    /\ currentHR_ = 75

\* a readSensorData() call that detected at least one beat and accepted none
RejectedBeatStep ==
    /\ ReadSensorDataStep
    /\ beatsEver' > beatsEver
    /\ acceptedEver' = acceptedEver

\* C16: a detected beat whose BPM is outside (20, 255), a zero interval
\* included, is discarded without any change of state: ring, write index,
\* heart rate, SpO2, validity and last-beat time are the same after the call
\* as before it
C16_RejectedBeatNoMutation ==
    [][RejectedBeatStep =>
            UNCHANGED <<rates, rateSpot, currentHR_, currentSPO2,
                        sensorStatus, lastBeat>>]_vars

\* a readSensorData() call that detected the first beat since start-up
FirstBeatStep ==
    /\ ReadSensorDataStep
    /\ beatsEver = 0
    /\ beatsEver' = 1

\* C17: the first beat detected after start-up is discarded at any clock
\* value: it writes no BPM into the ring and changes neither the heart rate
\* nor the validity flag
C17_FirstBeatDiscarded ==
    [][FirstBeatStep =>
            UNCHANGED <<rates, rateSpot, currentHR_, sensorStatus>>]_vars

\* a readSensorData() call in which no sample was below the infrared
\* threshold (the samples of one call are all of one kind, so a call that
\* leaves the run of low samples at 0 held none) and no beat was accepted
PassedGateNoAcceptStep ==
    /\ ReadSensorDataStep
    /\ lowRun' = 0
    /\ acceptedEver' = acceptedEver

\* C28: the validity flag becomes true only in a readSensorData() call that
\* accepted a beat; a call whose samples pass the presence gate and yield no
\* beat or only rejected beats leaves the validity flag as it was
C28_ValidOnlyOnAcceptedBeat ==
    [][ReadSensorDataStep =>
        /\ (~hasValidData /\ hasValidData') => acceptedEver' > acceptedEver
        /\ PassedGateNoAcceptStep => (hasValidData' <=> hasValidData)]_vars

\* the last call detected a beat on a sample above the threshold and
\* rejected it while the data were valid, and they still are
C28_Witness ==
    /\ rejectedWhileValid
    /\ hasValidData
    /\ acceptedEver >= 1
    /\ beatsEver > acceptedEver

\* C29: the SpO2 estimate is within [80, 100] (in hundredths: 8000 to 10000)
\* in every reachable state of either estimator
C29_SpO2InRange == currentSPO2 >= 8000 /\ currentSPO2 <= 10000

\* Max30102Manager has accepted a beat on a sample whose red/IR ratio 1.5
\* gives 110 - 37.5 = 72.5, and the estimate stands at 80
C29_Witness ==
    /\ estimator = "Max30102Manager"
    /\ acceptedEver >= 1
    /\ currentSPO2 = 8000

\* C38: in every reachable state of the estimator the ring write index is
\* in 0..3, every ring slot is 0 or a value in [20, 254], and the heart
\* rate is a whole number in [0, 254]
C38_RingRanges ==
    /\ rateSpot \in 0 .. 3
    /\ \A i \in RateSlots : rates[i] = 0 \/ rates[i] \in 20 .. 254
    /\ currentHR_ \in 0 .. 254

\* every slot of the ring has been written, with values that differ, and
\* the write index is back at 0
C38_Witness ==
    /\ acceptedEver = 4
    /\ rateSpot = 0
    /\ \A i \in RateSlots : rates[i] \in 20 .. 254
    /\ rates[0] # rates[3]
    /\ currentHR_ >= 20

\* ------------------------------------------------------------------------
\* Properties of the link
\* ------------------------------------------------------------------------
\* a step is a call of notifyHealthData(), notifyHealthDataWithAlert() or
\* notifyHealthDataBatch()
NotifyStep == bleCalls' = bleCalls + 1

\* C18: without a connected client notifyHealthData(),
\* notifyHealthDataWithAlert() and notifyHealthDataBatch() send nothing and
\* change no state (characteristic value, last-activity time);
\* notifyHealthDataBatch() returns false then, and true exactly when a client
\* is connected
C18_NoClientNoSend ==
    [][NotifyStep =>
        /\ ~clientConnected_ =>
                UNCHANGED <<pHealthDataBatchChar_, lastActivityMs_,
                            notifications, clientConnected_>>
        /\ bleCall'.op = "notifyHealthDataBatch" =>
                (bleCall'.ret <=> clientConnected_)]_vars

\* a realtime notification was delivered to a client, the client left, and
\* notifyHealthDataBatch() was then called: it returned false and the
\* characteristic still holds the value of the delivery
C18_Witness ==
    /\ ~clientConnected_
    /\ bleCalls >= 2
    /\ notifications = 1
    /\ bleCall = [op |-> "notifyHealthDataBatch", ret |-> FALSE]
    /\ pHealthDataBatchChar_.kind = "json"
    /\ millis # U32Zero

\* a step is a tick of the controller in batch mode
BatchTickStep == batchTicks' = batchTicks + 1

GetCompressedDataStep == serCalls' = serCalls + 1

\* C20: when the output buffer given to getCompressedData() is too small for
\* the serialized batch the call signals failure through its return value
\* (it returns 0) and writes no partial payload
C20_TooSmallSignalsFailure ==
    [][(GetCompressedDataStep
            /\ Len(serializeJson(getCompressedData)) > serMaxLen') =>
            (returned' = 0 /\ output' = <<>>)]_vars

\* C25: round trip. Parsing the payload getCompressedData() produced
\* recovers exactly the ordered (hr, spo2, steps, timestamp) tuples of the
\* buffer, so that two different buffer contents never give the same payload
C25_RoundTrip ==
    [][GetCompressedDataStep =>
        /\ Parse(output').ok
        /\ Parse(output').samples = getCompressedData]_vars

\* a step is a notifyHealthData() or notifyHealthDataWithAlert() call that
\* delivered its payload
RealtimeSentStep ==
    /\ NotifyStep
    /\ clientConnected_
    /\ bleCall'.op \in { "notifyHealthData", "notifyHealthDataWithAlert" }

QueryStep == queryCalls' = queryCalls + 1

\* a step of the specification of the queries that is no addSample(), no
\* clear(), no query and no passing of time is a resetSendTimer() call
ResetSendTimerStep ==
    /\ adds' = adds
    /\ clears' = clears
    /\ ticks' = ticks
    /\ queryCalls' = queryCalls

\* C35: resetSendTimer() changes only the last-send time and leaves the
\* value of shouldSend() as it was; shouldSend() is a function of count, the
\* first-sample time and the clock, not of the last-send time; and
\* shouldSend(), isFull(), getCount() and getLatestSample() return their
\* values without changing any member of the buffer
C35_SendTimerNotObservable ==
    /\ [][ResetSendTimerStep =>
            /\ lastSendMs_' = millis
            /\ UNCHANGED <<buffer_, count_, head_, firstSampleMs_>>
            /\ shouldSend' = shouldSend
            /\ isFull' = isFull
            /\ getCount' = getCount
            /\ getLatestSample' = getLatestSample]_vars
    /\ [](shouldSend <=>
            /\ count_ >= MIN_SAMPLES_TO_SEND
            /\ (count_ >= HR_BUFFER_SIZE \/ SendIntervalElapsed))
    /\ [][QueryStep =>
            /\ UNCHANGED <<buffer_, count_, head_, lastSendMs_,
                           firstSampleMs_>>
            /\ queryCall'.op = "shouldSend" => queryCall'.ret = shouldSend
            /\ queryCall'.op = "isFull" => queryCall'.ret = isFull
            /\ queryCall'.op = "getCount" => queryCall'.ret = getCount
            /\ queryCall'.op = "getLatestSample" =>
                    queryCall'.ret = getLatestSample]_vars

\* C35 witness: resetSendTimer() has moved the last-send time (no clear()
\* was made, and the time is not the one of construction) on a full buffer
\* whose first sample was stored at another time, and shouldSend() has then
\* answered true.
C35_Witness ==
    /\ clears = 0
    /\ lastSendMs_ = millis
    /\ lastSendMs_ # U32Zero
    /\ firstSampleMs_ # lastSendMs_
    /\ count_ = HR_BUFFER_SIZE
    /\ queryCall.op = "shouldSend"
    /\ queryCall.ret = TRUE

\* ------------------------------------------------------------------------
\* Properties of the profile
\* ------------------------------------------------------------------------
\* a step is an onWrite() call
WriteStep == writes' = writes + 1

\* the fields of the profile a client can write
ProfileFields == { "weight", "height", "gender", "age" }

\* what an onWrite() call does to the profile and to the step-count-enabled
\* flag: a write to weight, height, gender or age stores the value in that
\* field, leaves the other three fields and the flag as they were (the bmr
\* may change), and the next reader of the profile sees the value; a write
\* to the step-count-enabled characteristic sets the flag and leaves the
\* whole profile, bmr included, as it was
WriteIsIndependent ==
    LET f == writeCall'.uuid
        v == writeCall'.value
    IN  /\ f \in ProfileFields =>
              /\ getUserProfile'[f] = v
              /\ \A g \in ProfileFields \ {f} :
                     userProfile_'[g] = userProfile_[g]
              /\ stepCountEnabled_' = stepCountEnabled_
        /\ f = STEP_COUNT_ENABLED_CHAR_UUID =>
              /\ isStepCountEnabled' = (v # 0)
              /\ userProfile_' = userProfile_
        /\ UNCHANGED <<clientConnected_, pHealthDataBatchChar_,
                       notifications>>

\* C31 as stated: each profile field write is independent and changes
\* nothing but the field written (and the derived BMR), a write to the
\* step-count-enabled characteristic nothing but the flag
C31_WriteChangesOnlyField ==
    [][WriteStep =>
        /\ WriteIsIndependent
        /\ lastActivityMs_' = lastActivityMs_]_vars

\* C31 (amended): each profile field write is independent: an onWrite() to
\* weight, height, gender or age changes only that field, the derived BMR
\* and the last-activity time, and is visible to the next reader of the
\* profile; an onWrite() to the step-count-enabled characteristic changes
\* only the flag and the last-activity time, and no profile field, BMR
\* included
C31_WriteChangesFieldAndActivity ==
    [][WriteStep =>
        /\ WriteIsIndependent
        /\ lastActivityMs_' = millis]_vars

\* C31 witness: after a write that set the BMR, a write to the
\* step-count-enabled characteristic at a later time has cleared the flag,
\* left the profile with its BMR and stamped the last-activity time.
C31_Witness ==
    /\ writes >= 2
    /\ writeCall.uuid = STEP_COUNT_ENABLED_CHAR_UUID
    /\ ~isStepCountEnabled
    /\ getUserProfile.gender = 0
    /\ getUserProfile.bmr = bmrOf(getUserProfile)
    /\ lastActivityMs_ = millis
    /\ lastActivityMs_ # U32Zero

\* ------------------------------------------------------------------------
\* Properties of the MQTT client
\* ------------------------------------------------------------------------
\* a step is a maintain() call
MaintainStep == maintainCalls' = maintainCalls + 1

\* a step in which maintain() starts a connection attempt
MaintainAttemptStep == MaintainStep /\ reconnectAttempts' = reconnectAttempts + 1

\* C37: maintain() starts a connection attempt only while the client is
\* disconnected and only when more than 5000 ms have passed since the
\* previous attempt it started: two attempts started by maintain() are more
\* than 5000 ms of real time apart, and none is started while connected
C37_ReconnectPacing ==
    [][MaintainAttemptStep =>
        /\ ~isConnected
        /\ reconnectAttempts > 0 => sinceAttempt > 5000
        /\ lastReconnectAttempt' = millis]_vars

\* C37 witness: maintain() has started a second attempt, after millis()
\* wrapped since the first one, and maintain() was also called in between
\* without starting one.
C37_Witness ==
    /\ reconnectAttempts = 2
    /\ maintainCalls >= 3
    /\ sinceAttempt = 0
    /\ lastReconnectAttempt = millis
    /\ millis.hi = 0
    /\ ticks >= 3

====
